---- MODULE Spec2Model ----
(***************************************************************************)
(* The TicTacToe contract (src/unnamed/part_001): the on-chain game engine *)
(* that creates games, admits a second player, validates and applies       *)
(* moves, detects a win or a draw and mints a trophy to the winner.        *)
(*                                                                         *)
(* One step of the model is one external call applied by the chain: the    *)
(* call either runs to its end or reverts, and a revert restores the       *)
(* storage the call started from and drops the events it had emitted.      *)
(* Each external function is an operator from the storage and the call's   *)
(* arguments to an Outcome (new storage, events, result); the actions      *)
(* apply these operators to the contract's storage variables.              *)
(***************************************************************************)
EXTENDS Integers, Sequences, FiniteSets, TLC

(* ------------------------------ bounds -------------------------------- *)

\* Games that may be created under Spec and SpecFull (ids 0 .. MaxGames-1);
\* id MaxGames is never created there.
MaxGames == 1

\* Caller identities 1 .. NumAddresses; 0 is address(0).
NumAddresses == 3

\* Largest cell callers move on under Spec.
MaxCell == 6

\* Callers 1 .. NumDuo act under SpecFull.
NumDuo == 2

\* Games that may be created under SpecMulti (ids 0 .. MaxGamesMulti-1).
MaxGamesMulti == 2

\* The longest byte string _base64Encode is applied to under SpecBase64.
MaxLen == 5

\* The largest block timestamp of SpecClock.
MaxTime == 2

Addresses == 1 .. NumAddresses

GameIds == 0 .. MaxGames

TokenIds == 0 .. MaxGames

\* Game ids callers submit under SpecMulti; id MaxGamesMulti is never created.
MultiIds == 0 .. MaxGamesMulti

\* The keys of mappings games and of the token owners the model holds.
Keys == 0 .. (IF MaxGames > MaxGamesMulti THEN MaxGames ELSE MaxGamesMulti)

\* uint8 positions submitted under Spec: cells 0 .. MaxCell, and 9.
Positions == (0 .. MaxCell) \cup {9}

\* uint8 positions submitted under SpecFull: the nine cells, and 9.
AllPositions == 0 .. 9

\* uint8 positions caller a submits under SpecMulti: the cells of one row
\* of the board, another row for the next caller.
RowOf(a) == {3 * (a % 3) + i : i \in 0 .. 2}

Duo == 1 .. NumDuo

\* Callers that are contracts without an onERC721Received hook: a safe mint
\* to them reverts.  Every other caller is an account or a receiving contract.
NonReceivers == {3}

\* Callers that are contracts whose onERC721Received hook may call back
\* into this contract before it returns.
Reentrants == {2}

(* --------------------------- contract state --------------------------- *)

VARIABLES
    gameCounter,        \* uint256 public gameCounter
    tokenIdCounter,     \* uint256 private _tokenIdCounter
    games,              \* mapping(uint256 => Game)
    playerGames,        \* mapping(address => uint256[])
    playerWins,         \* mapping(address => uint256)
    playerGamesPlayed,  \* mapping(address => uint256)
    owners,             \* ERC721 owner of each token id, 0 when not minted
    now,                \* block.timestamp of the current block
    events,             \* the events emitted by the latest call, in order
    result,             \* "ok" or the error the latest call reverted with
    returned,           \* what the latest call of a pure function returned
    clients             \* the page state of each wallet's client (page.tsx)

vars == <<gameCounter, tokenIdCounter, games, playerGames, playerWins,
          playerGamesPlayed, owners, now, events, result, returned,
          clients>>

\* The contract's storage as one value, as the external functions read it.
Storage ==
    [gameCounter |-> gameCounter, tokenIdCounter |-> tokenIdCounter,
     games |-> games, playerGames |-> playerGames, playerWins |-> playerWins,
     playerGamesPlayed |-> playerGamesPlayed, owners |-> owners]

Cells == 0 .. 8

\* enum CellState { Empty, X, O }
CellState == {"Empty", "X", "O"}

\* enum GameState { WaitingForPlayer, InProgress, Finished, Draw }
GameState == {"WaitingForPlayer", "InProgress", "Finished", "Draw"}

\* The value every key of mapping games holds before it is written.
ZeroGame ==
    [player1 |-> 0, player2 |-> 0, board |-> [i \in Cells |-> "Empty"],
     currentTurn |-> 0, winner |-> 0, state |-> "WaitingForPlayer",
     createdAt |-> 0, lastMoveAt |-> 0]

(* ------------------------------- events ------------------------------- *)

GameCreated(gameId, player1) ==
    [name |-> "GameCreated", gameId |-> gameId, player1 |-> player1]

GameJoined(gameId, player2) ==
    [name |-> "GameJoined", gameId |-> gameId, player2 |-> player2]

MoveMade(gameId, player, position) ==
    [name |-> "MoveMade", gameId |-> gameId, player |-> player, position |-> position]

GameWon(gameId, winner) ==
    [name |-> "GameWon", gameId |-> gameId, winner |-> winner]

GameDraw(gameId) ==
    [name |-> "GameDraw", gameId |-> gameId]

WinnerNFTMinted(tokenId, winner, gameId) ==
    [name |-> "WinnerNFTMinted", tokenId |-> tokenId, winner |-> winner, gameId |-> gameId]

\* ERC721's Transfer(from, to, tokenId), emitted by a mint with from = 0.
Transfer(from, to, tokenId) ==
    [name |-> "Transfer", from |-> from, to |-> to, tokenId |-> tokenId]

(* ------------------------------ outcomes ------------------------------ *)

\* A call that ran to its end: the storage it leaves and the events it emitted.
Done(st, evs) == [st |-> st, events |-> evs, result |-> "ok"]

\* A call that reverted with error err: the storage the call started from,
\* no event.
Revert(st, err) == [st |-> st, events |-> <<>>, result |-> err]

(* ---------------------------- board engine ---------------------------- *)

\* checkWinner with the anti-diagonal test written for cells 2, 4, 7.
checkWinner_MissesDiagonal(board, mark) ==
    IF board[0] = mark /\ board[1] = mark /\ board[2] = mark THEN TRUE
    ELSE IF board[3] = mark /\ board[4] = mark /\ board[5] = mark THEN TRUE
    ELSE IF board[6] = mark /\ board[7] = mark /\ board[8] = mark THEN TRUE
    ELSE IF board[0] = mark /\ board[3] = mark /\ board[6] = mark THEN TRUE
    ELSE IF board[1] = mark /\ board[4] = mark /\ board[7] = mark THEN TRUE
    ELSE IF board[2] = mark /\ board[5] = mark /\ board[8] = mark THEN TRUE
    ELSE IF board[0] = mark /\ board[4] = mark /\ board[8] = mark THEN TRUE
    ELSE IF board[2] = mark /\ board[4] = mark /\ board[7] = mark THEN TRUE
    ELSE FALSE

\* checkWinner that tests each line for three equal non-Empty cells,
\* whatever the mark.
checkWinner_IgnoresMark(board, mark) ==
    IF board[0] # "Empty" /\ board[0] = board[1] /\ board[1] = board[2] THEN TRUE
    ELSE IF board[3] # "Empty" /\ board[3] = board[4] /\ board[4] = board[5] THEN TRUE
    ELSE IF board[6] # "Empty" /\ board[6] = board[7] /\ board[7] = board[8] THEN TRUE
    ELSE IF board[0] # "Empty" /\ board[0] = board[3] /\ board[3] = board[6] THEN TRUE
    ELSE IF board[1] # "Empty" /\ board[1] = board[4] /\ board[4] = board[7] THEN TRUE
    ELSE IF board[2] # "Empty" /\ board[2] = board[5] /\ board[5] = board[8] THEN TRUE
    ELSE IF board[0] # "Empty" /\ board[0] = board[4] /\ board[4] = board[8] THEN TRUE
    ELSE IF board[2] # "Empty" /\ board[2] = board[4] /\ board[4] = board[6] THEN TRUE
    ELSE FALSE

\* _checkWinner(board, mark): the eight tests of the code, in its order.
checkWinner(board, mark) ==
    IF board[0] = mark /\ board[1] = mark /\ board[2] = mark THEN TRUE
    ELSE IF board[3] = mark /\ board[4] = mark /\ board[5] = mark THEN TRUE
    ELSE IF board[6] = mark /\ board[7] = mark /\ board[8] = mark THEN TRUE
    ELSE IF board[0] = mark /\ board[3] = mark /\ board[6] = mark THEN TRUE
    ELSE IF board[1] = mark /\ board[4] = mark /\ board[7] = mark THEN TRUE
    ELSE IF board[2] = mark /\ board[5] = mark /\ board[8] = mark THEN TRUE
    ELSE IF board[0] = mark /\ board[4] = mark /\ board[8] = mark THEN TRUE
    ELSE IF board[2] = mark /\ board[4] = mark /\ board[6] = mark THEN TRUE
    ELSE FALSE

\* isBoardFull with the loop stopping one cell early (i < 8).
isBoardFull_SkipsLast(board) == \A i \in 0 .. 7 : board[i] # "Empty"

\* _isBoardFull(board): the loop returns false at the first Empty cell.
isBoardFull(board) == \A i \in Cells : board[i] # "Empty"

(* ------------------------- external functions ------------------------- *)

\* createGame that takes the id without incrementing gameCounter.
createGame_SameId(st, sender, t) ==
    LET gameId == st.gameCounter
        newGame == [st.games[gameId] EXCEPT
                        !.player1 = sender,
                        !.player2 = 0,
                        !.currentTurn = sender,
                        !.winner = 0,
                        !.state = "WaitingForPlayer",
                        !.createdAt = t,
                        !.lastMoveAt = t,
                        !.board = [i \in Cells |-> "Empty"]]
    IN  Done([st EXCEPT !.games[gameId] = newGame,
                        !.playerGames[sender] = Append(@, gameId)],
             <<GameCreated(gameId, sender)>>)

\* createGame that counts the game for its creator at once.
createGame_CountsCreator(st, sender, t) ==
    LET gameId == st.gameCounter
        newGame == [st.games[gameId] EXCEPT
                        !.player1 = sender,
                        !.player2 = 0,
                        !.currentTurn = sender,
                        !.winner = 0,
                        !.state = "WaitingForPlayer",
                        !.createdAt = t,
                        !.lastMoveAt = t,
                        !.board = [i \in Cells |-> "Empty"]]
    IN  Done([st EXCEPT !.gameCounter = @ + 1,
                        !.games[gameId] = newGame,
                        !.playerGames[sender] = Append(@, gameId),
                        !.playerGamesPlayed[sender] = @ + 1],
             <<GameCreated(gameId, sender)>>)

\* createGame that records the caller as player2 as well.
createGame_SelfOpponent(st, sender, t) ==
    LET gameId == st.gameCounter
        newGame == [st.games[gameId] EXCEPT
                        !.player1 = sender,
                        !.player2 = sender,
                        !.currentTurn = sender,
                        !.winner = 0,
                        !.state = "WaitingForPlayer",
                        !.createdAt = t,
                        !.lastMoveAt = t,
                        !.board = [i \in Cells |-> "Empty"]]
    IN  Done([st EXCEPT !.gameCounter = @ + 1,
                        !.games[gameId] = newGame,
                        !.playerGames[sender] = Append(@, gameId)],
             <<GameCreated(gameId, sender)>>)

\* createGame that increments gameCounter before it takes the id.
createGame_PreIncrement(st, sender, t) ==
    LET gameId == st.gameCounter + 1
        newGame == [st.games[gameId] EXCEPT
                        !.player1 = sender,
                        !.player2 = 0,
                        !.currentTurn = sender,
                        !.winner = 0,
                        !.state = "WaitingForPlayer",
                        !.createdAt = t,
                        !.lastMoveAt = t,
                        !.board = [i \in Cells |-> "Empty"]]
    IN  Done([st EXCEPT !.gameCounter = @ + 1,
                        !.games[gameId] = newGame,
                        !.playerGames[sender] = Append(@, gameId)],
             <<GameCreated(gameId, sender)>>)

\* createGame without the assignment of currentTurn.
createGame_NoTurn(st, sender, t) ==
    LET gameId == st.gameCounter
        newGame == [st.games[gameId] EXCEPT
                        !.player1 = sender,
                        !.player2 = 0,
                        !.winner = 0,
                        !.state = "WaitingForPlayer",
                        !.createdAt = t,
                        !.lastMoveAt = t,
                        !.board = [i \in Cells |-> "Empty"]]
    IN  Done([st EXCEPT !.gameCounter = @ + 1,
                        !.games[gameId] = newGame,
                        !.playerGames[sender] = Append(@, gameId)],
             <<GameCreated(gameId, sender)>>)

\* createGame(), called by sender in a block with timestamp t.
createGame(st, sender, t) ==
    LET gameId == st.gameCounter
        newGame == [st.games[gameId] EXCEPT
                        !.player1 = sender,
                        !.player2 = 0,
                        !.currentTurn = sender,
                        !.winner = 0,
                        !.state = "WaitingForPlayer",
                        !.createdAt = t,
                        !.lastMoveAt = t,
                        !.board = [i \in Cells |-> "Empty"]]
    IN  Done([st EXCEPT !.gameCounter = @ + 1,
                        !.games[gameId] = newGame,
                        !.playerGames[sender] = Append(@, gameId)],
             <<GameCreated(gameId, sender)>>)

\* joinGameRequire without the check of the game's state.
joinGameRequire_NoStateCheck(game, sender) ==
    IF game.player1 = 0 THEN "GameNotFound"
    ELSE IF game.player1 = sender THEN "CannotJoinOwnGame"
    ELSE "ok"

\* joinGameRequire without the check that the caller is not player1.
joinGameRequire_AllowsOwnGame(game, sender) ==
    IF game.player1 = 0 THEN "GameNotFound"
    ELSE IF game.state # "WaitingForPlayer" THEN "GameNotWaitingForPlayer"
    ELSE "ok"

\* The checks of joinGame, in the code's order: the error of the first that
\* fails, "ok" when none does.
joinGameRequire(game, sender) ==
    IF game.player1 = 0 THEN "GameNotFound"
    ELSE IF game.state # "WaitingForPlayer" THEN "GameNotWaitingForPlayer"
    ELSE IF game.player1 = sender THEN "CannotJoinOwnGame"
    ELSE "ok"

\* joinGame that records the game under the caller before its checks and
\* returns, instead of reverting, when a check fails.
joinGame_PushThenReturn(st, sender, gameId, t) ==
    LET game == st.games[gameId]
        err == joinGameRequire(game, sender)
        joined == [game EXCEPT !.player2 = sender,
                               !.state = "InProgress",
                               !.lastMoveAt = t]
        st0 == [st EXCEPT !.playerGames[sender] = Append(@, gameId)]
        st1 == [st0 EXCEPT !.games[gameId] = joined]
        st2 == [st1 EXCEPT !.playerGamesPlayed[game.player1] = @ + 1]
        st3 == [st2 EXCEPT !.playerGamesPlayed[sender] = @ + 1]
    IN  IF err # "ok"
        THEN [st |-> st0, events |-> <<>>, result |-> err]
        ELSE Done(st3, <<GameJoined(gameId, sender)>>)

\* joinGame without the push onto the caller's playerGames.
joinGame_NoPush(st, sender, gameId, t) ==
    LET game == st.games[gameId]
        err == joinGameRequire(game, sender)
        joined == [game EXCEPT !.player2 = sender,
                               !.state = "InProgress",
                               !.lastMoveAt = t]
        st1 == [st EXCEPT !.games[gameId] = joined]
        st2 == [st1 EXCEPT !.playerGamesPlayed[game.player1] = @ + 1]
        st3 == [st2 EXCEPT !.playerGamesPlayed[sender] = @ + 1]
    IN  IF err # "ok"
        THEN Revert(st, err)
        ELSE Done(st3, <<GameJoined(gameId, sender)>>)

\* joinGame without the increment of player1's playerGamesPlayed.
joinGame_CountsJoinerOnly(st, sender, gameId, t) ==
    LET game == st.games[gameId]
        err == joinGameRequire(game, sender)
        joined == [game EXCEPT !.player2 = sender,
                               !.state = "InProgress",
                               !.lastMoveAt = t]
        st1 == [st EXCEPT !.games[gameId] = joined,
                          !.playerGames[sender] = Append(@, gameId)]
        st3 == [st1 EXCEPT !.playerGamesPlayed[sender] = @ + 1]
    IN  IF err # "ok"
        THEN Revert(st, err)
        ELSE Done(st3, <<GameJoined(gameId, sender)>>)

\* joinGame that hands the first turn to the joiner.
joinGame_JoinerFirst(st, sender, gameId, t) ==
    LET game == st.games[gameId]
        err == joinGameRequire(game, sender)
        joined == [game EXCEPT !.player2 = sender,
                               !.state = "InProgress",
                               !.currentTurn = sender,
                               !.lastMoveAt = t]
        st1 == [st EXCEPT !.games[gameId] = joined,
                          !.playerGames[sender] = Append(@, gameId)]
        st2 == [st1 EXCEPT !.playerGamesPlayed[game.player1] = @ + 1]
        st3 == [st2 EXCEPT !.playerGamesPlayed[sender] = @ + 1]
    IN  IF err # "ok"
        THEN Revert(st, err)
        ELSE Done(st3, <<GameJoined(gameId, sender)>>)

\* joinGame(gameId), called by sender in a block with timestamp t.
joinGame(st, sender, gameId, t) ==
    LET game == st.games[gameId]
        err == joinGameRequire(game, sender)
        joined == [game EXCEPT !.player2 = sender,
                               !.state = "InProgress",
                               !.lastMoveAt = t]
        st1 == [st EXCEPT !.games[gameId] = joined,
                          !.playerGames[sender] = Append(@, gameId)]
        st2 == [st1 EXCEPT !.playerGamesPlayed[game.player1] = @ + 1]
        st3 == [st2 EXCEPT !.playerGamesPlayed[sender] = @ + 1]
    IN  IF err # "ok"
        THEN Revert(st, err)
        ELSE Done(st3, <<GameJoined(gameId, sender)>>)

\* makeMoveRequire without the check of the turn.
makeMoveRequire_NoTurnCheck(game, sender, position) ==
    IF game.player1 = 0 THEN "GameNotFound"
    ELSE IF game.state # "InProgress" THEN "GameNotInProgress"
    ELSE IF game.state = "Finished" THEN "GameAlreadyFinished"
    ELSE IF sender # game.player1 /\ sender # game.player2 THEN "NotAPlayer"
    ELSE IF position >= 9 THEN "InvalidPosition"
    ELSE IF game.board[position] # "Empty" THEN "CellNotEmpty"
    ELSE "ok"

\* makeMoveRequire with the position check moved to the front.
makeMoveRequire_PositionFirst(game, sender, position) ==
    IF position >= 9 THEN "InvalidPosition"
    ELSE IF game.player1 = 0 THEN "GameNotFound"
    ELSE IF game.state # "InProgress" THEN "GameNotInProgress"
    ELSE IF game.state = "Finished" THEN "GameAlreadyFinished"
    ELSE IF sender # game.player1 /\ sender # game.player2 THEN "NotAPlayer"
    ELSE IF sender # game.currentTurn THEN "NotYourTurn"
    ELSE IF game.board[position] # "Empty" THEN "CellNotEmpty"
    ELSE "ok"

\* makeMoveRequire with the Finished check ahead of the InProgress check.
makeMoveRequire_FinishedFirst(game, sender, position) ==
    IF game.player1 = 0 THEN "GameNotFound"
    ELSE IF game.state = "Finished" THEN "GameAlreadyFinished"
    ELSE IF game.state # "InProgress" THEN "GameNotInProgress"
    ELSE IF sender # game.player1 /\ sender # game.player2 THEN "NotAPlayer"
    ELSE IF sender # game.currentTurn THEN "NotYourTurn"
    ELSE IF position >= 9 THEN "InvalidPosition"
    ELSE IF game.board[position] # "Empty" THEN "CellNotEmpty"
    ELSE "ok"

\* The checks of makeMove, in the code's order: the error of the first that
\* fails, "ok" when none does.
makeMoveRequire(game, sender, position) ==
    IF game.player1 = 0 THEN "GameNotFound"
    ELSE IF game.state # "InProgress" THEN "GameNotInProgress"
    ELSE IF game.state = "Finished" THEN "GameAlreadyFinished"
    ELSE IF sender # game.player1 /\ sender # game.player2 THEN "NotAPlayer"
    ELSE IF sender # game.currentTurn THEN "NotYourTurn"
    ELSE IF position >= 9 THEN "InvalidPosition"
    ELSE IF game.board[position] # "Empty" THEN "CellNotEmpty"
    ELSE "ok"

\* markOf with the two marks exchanged.
markOf_Swapped(game, sender) == IF sender = game.player1 THEN "O" ELSE "X"

\* The mark makeMove places for sender: X for player1, O for anyone else.
markOf(game, sender) == IF sender = game.player1 THEN "X" ELSE "O"

\* placeMark that leaves lastMoveAt as it was.
placeMark_KeepsTime(game, position, mark, t) ==
    [game EXCEPT !.board[position] = mark]

\* makeMove's "place the mark": the cell and lastMoveAt are written.
placeMark(game, position, mark, t) ==
    [game EXCEPT !.board[position] = mark, !.lastMoveAt = t]

\* wonGame without the assignment of winner.
wonGame_NoWinner(game, sender) == [game EXCEPT !.state = "Finished"]

\* makeMove's winner branch, on the game record: winner and state.
wonGame(game, sender) ==
    [game EXCEPT !.winner = sender, !.state = "Finished"]

\* drawnGame that also passes the turn to the other player.
drawnGame_SwitchesTurn(game) ==
    [game EXCEPT !.state = "Draw",
                 !.currentTurn = IF @ = game.player1 THEN game.player2
                                 ELSE game.player1]

\* makeMove's draw branch, on the game record.
drawnGame(game) == [game EXCEPT !.state = "Draw"]

\* switchTurn with the two players exchanged: the turn stays with the mover.
switchTurn_Stays(game, sender) ==
    [game EXCEPT !.currentTurn =
        IF sender = game.player1 THEN game.player1 ELSE game.player2]

\* makeMove's last branch: the turn goes to the other player.
switchTurn(game, sender) ==
    [game EXCEPT !.currentTurn =
        IF sender = game.player1 THEN game.player2 ELSE game.player1]

(* --------------------------- trophy minting --------------------------- *)

\* What a recipient's onERC721Received hook does before it returns: nothing,
\* or one call of this contract.
NoHook == [op |-> "none", gameId |-> 0, position |-> 0]

\* The hooks that call back with game ids of ids and positions of positions.
Callbacks(ids, positions) ==
    {[op |-> "createGame", gameId |-> 0, position |-> 0]}
    \cup {[op |-> "joinGame", gameId |-> g, position |-> 0] : g \in ids}
    \cup {[op |-> "makeMove", gameId |-> g, position |-> p] :
              g \in ids, p \in positions}

RECURSIVE makeMove(_, _, _, _, _, _)

\* The call a hook of recipient `to` makes, with msg.sender = to; the hook
\* catches a revert of its call, and a hook running inside that call does
\* not call back again.
onERC721Received(st, to, hook, t) ==
    LET inner == CASE hook.op = "createGame" -> createGame(st, to, t)
                   [] hook.op = "joinGame" -> joinGame(st, to, hook.gameId, t)
                   [] hook.op = "makeMove" ->
                         makeMove(st, to, hook.gameId, hook.position, t, NoHook)
                   [] OTHER -> Done(st, <<>>)
    IN  IF inner.result # "ok" THEN Done(st, <<>>) ELSE inner

\* ERC721 _safeMint(to, tokenId): reverts with ERC721InvalidSender if the
\* token already has an owner; records the owner, emits Transfer, then asks
\* a contract recipient to accept the token by calling its onERC721Received
\* hook; a recipient without the hook makes the whole call revert with
\* ERC721InvalidReceiver.
safeMint(st, to, tokenId, hook, t) ==
    LET minted == [st EXCEPT !.owners[tokenId] = to]
        inner == IF to \in Reentrants
                 THEN onERC721Received(minted, to, hook, t)
                 ELSE Done(minted, <<>>)
    IN  IF st.owners[tokenId] # 0
        THEN Revert(st, "ERC721InvalidSender")
        ELSE IF to \in NonReceivers
        THEN Revert(st, "ERC721InvalidReceiver")
        ELSE Done(inner.st, <<Transfer(0, to, tokenId)>> \o inner.events)

\* mintWinnerNFT that numbers the trophy with the game's id.
mintWinnerNFT_UsesGameId(st, winner, gameId, hook, t) ==
    LET tokenId == gameId
        st1 == [st EXCEPT !.tokenIdCounter = @ + 1]
        minted == safeMint(st1, winner, tokenId, hook, t)
    IN  IF minted.result # "ok"
        THEN Revert(st, minted.result)
        ELSE Done(minted.st,
                  minted.events \o <<WinnerNFTMinted(tokenId, winner, gameId)>>)

\* _mintWinnerNFT(winner, gameId)
mintWinnerNFT(st, winner, gameId, hook, t) ==
    LET tokenId == st.tokenIdCounter
        st1 == [st EXCEPT !.tokenIdCounter = @ + 1]
        minted == safeMint(st1, winner, tokenId, hook, t)
    IN  IF minted.result # "ok"
        THEN Revert(st, minted.result)
        ELSE Done(minted.st,
                  minted.events \o <<WinnerNFTMinted(tokenId, winner, gameId)>>)

\* makeMove without the increment of playerWins.
makeMove_NoWinCount(st, sender, gameId, position, t, hook) ==
    LET game == st.games[gameId]
        err == makeMoveRequire(game, sender, position)
        mark == markOf(game, sender)
        placed == placeMark(game, position, mark, t)
        moved == <<MoveMade(gameId, sender, position)>>
        stWon == [st EXCEPT !.games[gameId] = wonGame(placed, sender)]
        minted == mintWinnerNFT(stWon, sender, gameId, hook, t)
    IN  IF err # "ok" THEN Revert(st, err)
        ELSE IF checkWinner(placed.board, mark)
        THEN IF minted.result # "ok"
             THEN Revert(st, minted.result)
             ELSE Done(minted.st,
                       moved \o minted.events \o <<GameWon(gameId, sender)>>)
        ELSE IF isBoardFull(placed.board)
        THEN Done([st EXCEPT !.games[gameId] = drawnGame(placed)],
                  moved \o <<GameDraw(gameId)>>)
        ELSE Done([st EXCEPT !.games[gameId] = switchTurn(placed, sender)],
                  moved)

\* makeMove with the full-board test made before the winner test.
makeMove_DrawFirst(st, sender, gameId, position, t, hook) ==
    LET game == st.games[gameId]
        err == makeMoveRequire(game, sender, position)
        mark == markOf(game, sender)
        placed == placeMark(game, position, mark, t)
        moved == <<MoveMade(gameId, sender, position)>>
        stWon == [st EXCEPT !.games[gameId] = wonGame(placed, sender),
                            !.playerWins[sender] = @ + 1]
        minted == mintWinnerNFT(stWon, sender, gameId, hook, t)
    IN  IF err # "ok" THEN Revert(st, err)
        ELSE IF isBoardFull(placed.board)
        THEN Done([st EXCEPT !.games[gameId] = drawnGame(placed)],
                  moved \o <<GameDraw(gameId)>>)
        ELSE IF checkWinner(placed.board, mark)
        THEN IF minted.result # "ok"
             THEN Revert(st, minted.result)
             ELSE Done(minted.st,
                       moved \o minted.events \o <<GameWon(gameId, sender)>>)
        ELSE Done([st EXCEPT !.games[gameId] = switchTurn(placed, sender)],
                  moved)

\* makeMove(gameId, position), called by sender in a block with timestamp
\* t; hook is what the caller's onERC721Received does if a trophy is minted.
makeMove(st, sender, gameId, position, t, hook) ==
    LET game == st.games[gameId]
        err == makeMoveRequire(game, sender, position)
        mark == markOf(game, sender)
        placed == placeMark(game, position, mark, t)
        moved == <<MoveMade(gameId, sender, position)>>
        stWon == [st EXCEPT !.games[gameId] = wonGame(placed, sender),
                            !.playerWins[sender] = @ + 1]
        minted == mintWinnerNFT(stWon, sender, gameId, hook, t)
    IN  IF err # "ok" THEN Revert(st, err)
        ELSE IF checkWinner(placed.board, mark)
        THEN IF minted.result # "ok"
             THEN Revert(st, minted.result)
             ELSE Done(minted.st,
                       moved \o minted.events \o <<GameWon(gameId, sender)>>)
        ELSE IF isBoardFull(placed.board)
        THEN Done([st EXCEPT !.games[gameId] = drawnGame(placed)],
                  moved \o <<GameDraw(gameId)>>)
        ELSE Done([st EXCEPT !.games[gameId] = switchTurn(placed, sender)],
                  moved)

(* --------------------------- view functions --------------------------- *)

\* The uint8 the ABI carries for a value of the contract's enum CellState:
\* its place in the declaration.
abiCellState(cell) ==
    CASE cell = "Empty" -> 0 [] cell = "X" -> 1 [] cell = "O" -> 2

\* The uint8 the ABI carries for a value of the contract's enum GameState.
abiGameState(state) ==
    CASE state = "WaitingForPlayer" -> 0 [] state = "InProgress" -> 1
      [] state = "Finished" -> 2 [] state = "Draw" -> 3

\* The client's enum CellState (types.ts): Number(cell) as CellState.
asCellState(number) ==
    CASE number = 0 -> "Empty" [] number = 1 -> "X" [] number = 2 -> "O"

\* The client's enum GameState (types.ts): Number(state) as GameState.
asGameState(number) ==
    CASE number = 0 -> "WaitingForPlayer" [] number = 1 -> "InProgress"
      [] number = 2 -> "Finished" [] number = 3 -> "Draw"

\* getGame(gameId): the fields of the record mapping games holds at gameId,
\* whether or not a game was created there; the function has no require.
getGame(st, gameId) ==
    LET game == st.games[gameId]
    IN  [result |-> "ok",
         player1 |-> game.player1, player2 |-> game.player2,
         board |-> game.board, currentTurn |-> game.currentTurn,
         winner |-> game.winner, state |-> game.state]

\* The client's getGame(gameId) (useContract.ts): the Game built from the
\* contract's answer, null when the contract call throws.
useContractGetGame(st, gameId) ==
    LET answer == getGame(st, gameId)
    IN  IF answer.result # "ok"
        THEN [isNull |-> TRUE]
        ELSE [isNull |-> FALSE, id |-> gameId,
              player1 |-> answer.player1, player2 |-> answer.player2,
              board |-> [i \in Cells |->
                            asCellState(abiCellState(answer.board[i]))],
              currentTurn |-> answer.currentTurn,
              winner |-> answer.winner,
              state |-> asGameState(abiGameState(answer.state))]

\* The client's WINNING_COMBINATIONS (config.ts), in its order.
WINNING_COMBINATIONS ==
    <<<<0, 1, 2>>, <<3, 4, 5>>, <<6, 7, 8>>, <<0, 3, 6>>, <<1, 4, 7>>,
      <<2, 5, 8>>, <<0, 4, 8>>, <<2, 4, 6>>>>

RECURSIVE findWinningCellsFrom_LastMatch(_, _, _, _)

\* The loop of findWinningCells that goes on after a match and returns the
\* last matching combination.
findWinningCellsFrom_LastMatch(board, winner, k, found) ==
    IF k > Len(WINNING_COMBINATIONS) THEN found
    ELSE LET combo == WINNING_COMBINATIONS[k]
         IN  IF /\ board[combo[1]] = winner
                /\ board[combo[2]] = winner
                /\ board[combo[3]] = winner
             THEN findWinningCellsFrom_LastMatch(board, winner, k + 1, combo)
             ELSE findWinningCellsFrom_LastMatch(board, winner, k + 1, found)

RECURSIVE findWinningCellsFrom(_, _, _, _)

\* The loop of findWinningCells from the k-th combination on: the first
\* combination whose three cells hold winner is returned, found (the empty
\* list) when the combinations are exhausted.
findWinningCellsFrom(board, winner, k, found) ==
    IF k > Len(WINNING_COMBINATIONS) THEN found
    ELSE LET combo == WINNING_COMBINATIONS[k]
         IN  IF /\ board[combo[1]] = winner
                /\ board[combo[2]] = winner
                /\ board[combo[3]] = winner
             THEN combo
             ELSE findWinningCellsFrom(board, winner, k + 1, found)

\* The client's findWinningCells(board, winner) (page.tsx).
findWinningCells(board, winner) == findWinningCellsFrom(board, winner, 1, <<>>)

\* The mark the client looks for on a Finished game: X when the winner is
\* player1, O otherwise.
winnerMark(game) == IF game.winner = game.player1 THEN "X" ELSE "O"

\* getBoard(gameId)
getBoard(st, gameId) == st.games[gameId].board

\* getPlayerGames(player)
getPlayerGames(st, player) == st.playerGames[player]

RECURSIVE countOpen(_, _, _)

\* getOpenGames' first loop, from i on: count the WaitingForPlayer games
\* among the ids below gameCounter.
countOpen(st, i, count) ==
    IF i >= st.gameCounter THEN count
    ELSE countOpen(st, i + 1,
                   IF st.games[i].state = "WaitingForPlayer"
                   THEN count + 1 ELSE count)

RECURSIVE collectOpen_SkipsFirst(_, _, _, _)

\* collectOpen with the loop starting at id 1.
collectOpen_SkipsFirst(st, i, index, openGames) ==
    IF i = 0 THEN collectOpen_SkipsFirst(st, 1, index, openGames)
    ELSE IF i >= st.gameCounter THEN openGames
    ELSE IF st.games[i].state = "WaitingForPlayer"
    THEN collectOpen_SkipsFirst(st, i + 1, index + 1,
                                [openGames EXCEPT ![index + 1] = i])
    ELSE collectOpen_SkipsFirst(st, i + 1, index, openGames)

RECURSIVE collectOpen(_, _, _, _)

\* getOpenGames' second loop, from i on: openGames[index++] = i for each
\* WaitingForPlayer game (the array is 0-based in the code, 1-based here).
collectOpen(st, i, index, openGames) ==
    IF i >= st.gameCounter THEN openGames
    ELSE IF st.games[i].state = "WaitingForPlayer"
    THEN collectOpen(st, i + 1, index + 1,
                     [openGames EXCEPT ![index + 1] = i])
    ELSE collectOpen(st, i + 1, index, openGames)

\* getOpenGames(): an array of count zeros, filled by the second loop.
getOpenGames(st) ==
    LET count == countOpen(st, 0, 0)
    IN  collectOpen(st, 0, 0, [k \in 1 .. count |-> 0])

\* getPlayerStats(player)
getPlayerStats(st, player) ==
    [wins |-> st.playerWins[player], totalGames |-> st.playerGamesPlayed[player]]

(* -------------------------- trophy metadata --------------------------- *)

\* Strings are sequences of bytes, a byte is a number of 0 .. 255.

\* tokenURI: the bytes of data:application/json;base64,
UriPrefix ==
    <<100, 97, 116, 97, 58, 97, 112, 112, 108, 105, 99, 97, 116, 105, 111,
      110, 47, 106, 115, 111, 110, 59, 98, 97, 115, 101, 54, 52, 44>>

\* tokenURI: the bytes of {"name":"TicTacToe Winner #
JsonName ==
    <<123, 34, 110, 97, 109, 101, 34, 58, 34, 84, 105, 99, 84, 97, 99, 84,
      111, 101, 32, 87, 105, 110, 110, 101, 114, 32, 35>>

\* tokenURI: the bytes of ","description":"This NFT proves you won a game of
\* TicTacToe on the blockchain!","image":"data:image/svg+xml;base64,
JsonImage ==
    <<34, 44, 34, 100, 101, 115, 99, 114, 105, 112, 116, 105, 111, 110,
      34, 58, 34, 84, 104, 105, 115, 32, 78, 70, 84, 32, 112, 114, 111,
      118, 101, 115, 32, 121, 111, 117, 32, 119, 111, 110, 32, 97, 32,
      103, 97, 109, 101, 32, 111, 102, 32, 84, 105, 99, 84, 97, 99, 84,
      111, 101, 32, 111, 110, 32, 116, 104, 101, 32, 98, 108, 111, 99,
      107, 99, 104, 97, 105, 110, 33, 34, 44, 34, 105, 109, 97, 103, 101,
      34, 58, 34, 100, 97, 116, 97, 58, 105, 109, 97, 103, 101, 47, 115,
      118, 103, 43, 120, 109, 108, 59, 98, 97, 115, 101, 54, 52, 44>>

\* tokenURI: the bytes of "}
JsonEnd ==
    <<34, 125>>

\* _generateSVG: the bytes of <svg xmlns="http://www.w3.org/2000/svg"
\* width="350" height="350">
SvgOpen ==
    <<60, 115, 118, 103, 32, 120, 109, 108, 110, 115, 61, 34, 104, 116,
      116, 112, 58, 47, 47, 119, 119, 119, 46, 119, 51, 46, 111, 114, 103,
      47, 50, 48, 48, 48, 47, 115, 118, 103, 34, 32, 119, 105, 100, 116,
      104, 61, 34, 51, 53, 48, 34, 32, 104, 101, 105, 103, 104, 116, 61,
      34, 51, 53, 48, 34, 62>>

\* _generateSVG: the bytes of <rect width="100%" height="100%"
\* fill="#1a1a2e"/>
SvgRect ==
    <<60, 114, 101, 99, 116, 32, 119, 105, 100, 116, 104, 61, 34, 49, 48,
      48, 37, 34, 32, 104, 101, 105, 103, 104, 116, 61, 34, 49, 48, 48,
      37, 34, 32, 102, 105, 108, 108, 61, 34, 35, 49, 97, 49, 97, 50, 101,
      34, 47, 62>>

\* _generateSVG: the bytes of <text x="175" y="100" text-anchor="middle"
\* fill="#00d9ff" font-size="24" font-family="Arial">TicTacToe</text>
SvgTitle ==
    <<60, 116, 101, 120, 116, 32, 120, 61, 34, 49, 55, 53, 34, 32, 121,
      61, 34, 49, 48, 48, 34, 32, 116, 101, 120, 116, 45, 97, 110, 99,
      104, 111, 114, 61, 34, 109, 105, 100, 100, 108, 101, 34, 32, 102,
      105, 108, 108, 61, 34, 35, 48, 48, 100, 57, 102, 102, 34, 32, 102,
      111, 110, 116, 45, 115, 105, 122, 101, 61, 34, 50, 52, 34, 32, 102,
      111, 110, 116, 45, 102, 97, 109, 105, 108, 121, 61, 34, 65, 114,
      105, 97, 108, 34, 62, 84, 105, 99, 84, 97, 99, 84, 111, 101, 60, 47,
      116, 101, 120, 116, 62>>

\* _generateSVG: the bytes of <text x="175" y="140" text-anchor="middle"
\* fill="#00d9ff" font-size="20" font-family="Arial">WINNER</text>
SvgWinner ==
    <<60, 116, 101, 120, 116, 32, 120, 61, 34, 49, 55, 53, 34, 32, 121,
      61, 34, 49, 52, 48, 34, 32, 116, 101, 120, 116, 45, 97, 110, 99,
      104, 111, 114, 61, 34, 109, 105, 100, 100, 108, 101, 34, 32, 102,
      105, 108, 108, 61, 34, 35, 48, 48, 100, 57, 102, 102, 34, 32, 102,
      111, 110, 116, 45, 115, 105, 122, 101, 61, 34, 50, 48, 34, 32, 102,
      111, 110, 116, 45, 102, 97, 109, 105, 108, 121, 61, 34, 65, 114,
      105, 97, 108, 34, 62, 87, 73, 78, 78, 69, 82, 60, 47, 116, 101, 120,
      116, 62>>

\* _generateSVG: the bytes of <text x="175" y="200" text-anchor="middle"
\* fill="#ffd700" font-size="60" font-family="Arial">#
SvgNumber ==
    <<60, 116, 101, 120, 116, 32, 120, 61, 34, 49, 55, 53, 34, 32, 121,
      61, 34, 50, 48, 48, 34, 32, 116, 101, 120, 116, 45, 97, 110, 99,
      104, 111, 114, 61, 34, 109, 105, 100, 100, 108, 101, 34, 32, 102,
      105, 108, 108, 61, 34, 35, 102, 102, 100, 55, 48, 48, 34, 32, 102,
      111, 110, 116, 45, 115, 105, 122, 101, 61, 34, 54, 48, 34, 32, 102,
      111, 110, 116, 45, 102, 97, 109, 105, 108, 121, 61, 34, 65, 114,
      105, 97, 108, 34, 62, 35>>

\* _generateSVG: the bytes of </text>
SvgNumberEnd ==
    <<60, 47, 116, 101, 120, 116, 62>>

\* _generateSVG: the bytes of <text x="175" y="280" text-anchor="middle"
\* fill="#888" font-size="14" font-family="Arial">On-Chain Victory</text>
SvgVictory ==
    <<60, 116, 101, 120, 116, 32, 120, 61, 34, 49, 55, 53, 34, 32, 121,
      61, 34, 50, 56, 48, 34, 32, 116, 101, 120, 116, 45, 97, 110, 99,
      104, 111, 114, 61, 34, 109, 105, 100, 100, 108, 101, 34, 32, 102,
      105, 108, 108, 61, 34, 35, 56, 56, 56, 34, 32, 102, 111, 110, 116,
      45, 115, 105, 122, 101, 61, 34, 49, 52, 34, 32, 102, 111, 110, 116,
      45, 102, 97, 109, 105, 108, 121, 61, 34, 65, 114, 105, 97, 108, 34,
      62, 79, 110, 45, 67, 104, 97, 105, 110, 32, 86, 105, 99, 116, 111,
      114, 121, 60, 47, 116, 101, 120, 116, 62>>

\* _generateSVG: the bytes of </svg>
SvgClose ==
    <<60, 47, 115, 118, 103, 62>>

\* _base64Encode: the bytes of TABLE,
\* ABCDEFGHIJKLMNOPQRSTUVWXYZabcdefghijklmnopqrstuvwxyz0123456789+/
TABLE ==
    <<65, 66, 67, 68, 69, 70, 71, 72, 73, 74, 75, 76, 77, 78, 79, 80, 81,
      82, 83, 84, 85, 86, 87, 88, 89, 90, 97, 98, 99, 100, 101, 102, 103,
      104, 105, 106, 107, 108, 109, 110, 111, 112, 113, 114, 115, 116,
      117, 118, 119, 120, 121, 122, 48, 49, 50, 51, 52, 53, 54, 55, 56,
      57, 43, 47>>

RECURSIVE countDigits(_, _)

\* _toString's first loop: the number of decimal digits of temp, added to
\* digits.
countDigits(temp, digits) ==
    IF temp = 0 THEN digits ELSE countDigits(temp \div 10, digits + 1)

RECURSIVE fillDigits(_, _, _)

\* _toString's second loop: digits -= 1; buffer[digits] = 48 + value % 10;
\* value /= 10 (the buffer is 0-based in the code, 1-based here).
fillDigits(value, digits, buffer) ==
    IF value = 0 THEN buffer
    ELSE fillDigits(value \div 10, digits - 1,
                    [buffer EXCEPT ![digits] = 48 + (value % 10)])

\* _toString(value)
toString(value) ==
    IF value = 0 THEN <<48>>
    ELSE LET digits == countDigits(value, 0)
         IN  fillDigits(value, digits, [k \in 1 .. digits |-> 0])

\* _generateSVG(tokenId)
generateSVG(tokenId) ==
    SvgOpen \o SvgRect \o SvgTitle \o SvgWinner \o SvgNumber
        \o toString(tokenId) \o SvgNumberEnd \o SvgVictory \o SvgClose

\* base64Encode that leaves the last group unpadded.
base64Encode_NoPadding(data) ==
    LET len == Len(data)
        encodedLen == 4 * ((len + 2) \div 3)
        byte(i) == IF i <= len THEN data[i] ELSE 0
        triple(k) ==
            byte(3 * k + 1) * 65536 + byte(3 * k + 2) * 256 + byte(3 * k + 3)
        sextet(j) ==
            LET t == triple((j - 1) \div 4)
            IN  CASE (j - 1) % 4 = 0 -> (t \div 262144) % 64
                  [] (j - 1) % 4 = 1 -> (t \div 4096) % 64
                  [] (j - 1) % 4 = 2 -> (t \div 64) % 64
                  [] OTHER -> t % 64
    IN  IF len = 0 THEN <<>>
        ELSE [j \in 1 .. encodedLen |-> TABLE[sextet(j) + 1]]

\* base64Encode that pads a single left-over byte with one "=" only.
base64Encode_SinglePad(data) ==
    LET len == Len(data)
        encodedLen == 4 * ((len + 2) \div 3)
        byte(i) == IF i <= len THEN data[i] ELSE 0
        triple(k) ==
            byte(3 * k + 1) * 65536 + byte(3 * k + 2) * 256 + byte(3 * k + 3)
        sextet(j) ==
            LET t == triple((j - 1) \div 4)
            IN  CASE (j - 1) % 4 = 0 -> (t \div 262144) % 64
                  [] (j - 1) % 4 = 1 -> (t \div 4096) % 64
                  [] (j - 1) % 4 = 2 -> (t \div 64) % 64
                  [] OTHER -> t % 64
        mod == len % 3
        PadByte == 61
    IN  IF len = 0 THEN <<>>
        ELSE [j \in 1 .. encodedLen |->
                 IF mod > 0 /\ j = encodedLen THEN PadByte
                 ELSE TABLE[sextet(j) + 1]]

\* _base64Encode(data): each group of three bytes, the missing ones taken
\* as 0, gives four symbols of TABLE; then the last symbol, and the one
\* before it when a single byte is left over, is overwritten with "=".
base64Encode(data) ==
    LET len == Len(data)
        encodedLen == 4 * ((len + 2) \div 3)
        byte(i) == IF i <= len THEN data[i] ELSE 0
        triple(k) ==
            byte(3 * k + 1) * 65536 + byte(3 * k + 2) * 256 + byte(3 * k + 3)
        sextet(j) ==
            LET t == triple((j - 1) \div 4)
            IN  CASE (j - 1) % 4 = 0 -> (t \div 262144) % 64
                  [] (j - 1) % 4 = 1 -> (t \div 4096) % 64
                  [] (j - 1) % 4 = 2 -> (t \div 64) % 64
                  [] OTHER -> t % 64
        mod == len % 3
        PadByte == 61
    IN  IF len = 0 THEN <<>>
        ELSE [j \in 1 .. encodedLen |->
                 IF mod > 0 /\ j = encodedLen THEN PadByte
                 ELSE IF mod = 1 /\ j = encodedLen - 1 THEN PadByte
                 ELSE TABLE[sextet(j) + 1]]

\* tokenURI that requires the token to be minted (ERC721's default), the
\* empty string standing for its revert.
tokenURI_RequiresOwned(tokenId) ==
    IF tokenId \notin Keys \/ owners[tokenId] = 0 THEN <<>>
    ELSE UriPrefix \o base64Encode(
             JsonName \o toString(tokenId) \o JsonImage
                 \o base64Encode(generateSVG(tokenId)) \o JsonEnd)

\* tokenURI(tokenId): a pure function, it reads no storage.
tokenURI(tokenId) ==
    UriPrefix \o base64Encode(
        JsonName \o toString(tokenId) \o JsonImage
            \o base64Encode(generateSVG(tokenId)) \o JsonEnd)

(* ------------------------------ actions ------------------------------- *)

\* useState<Game | null>(null): no game shown.
NoGame == [isNull |-> TRUE]

\* The page of a client whose wallet has just connected: no game shown, no
\* winning cells, and the effect that loads the data on connection due.
Opened == [currentGame |-> NoGame, winningCells |-> <<>>, refreshDue |-> TRUE]

\* The state after the constructor: both counters 0, every mapping empty.
Deployed ==
    /\ gameCounter = 0
    /\ tokenIdCounter = 0
    /\ games = [g \in Keys |-> ZeroGame]
    /\ playerGames = [a \in Addresses |-> <<>>]
    /\ playerWins = [a \in Addresses |-> 0]
    /\ playerGamesPlayed = [a \in Addresses |-> 0]
    /\ owners = [k \in Keys |-> 0]
    /\ now = 0
    /\ events = <<>>
    /\ result = "ok"
    /\ clients = [c \in Duo |-> Opened]

\* The deployed contract, no pure function called.
Init == Deployed /\ returned = [fn |-> "none"]

\* The chain applies a call's outcome in a block with timestamp t.
ApplyCall(out, t) ==
    /\ gameCounter' = out.st.gameCounter
    /\ tokenIdCounter' = out.st.tokenIdCounter
    /\ games' = out.st.games
    /\ playerGames' = out.st.playerGames
    /\ playerWins' = out.st.playerWins
    /\ playerGamesPlayed' = out.st.playerGamesPlayed
    /\ owners' = out.st.owners
    /\ now' = t
    /\ events' = out.events
    /\ result' = out.result
    /\ returned' = returned

\* A call made directly to the contract: no client's page changes.
Apply(out, t) == ApplyCall(out, t) /\ clients' = clients

\* createGame() by a caller of callers, while fewer than cap games exist.
CreateGame(callers, cap) ==
    \E sender \in callers :
        /\ gameCounter < cap
        /\ \E out \in {createGame(Storage, sender, now)} : Apply(out, now)

\* joinGame(gameId) by a caller of callers, for any id of ids.
JoinGame(callers, ids) ==
    \E sender \in callers, gameId \in ids :
        \E out \in {joinGame(Storage, sender, gameId, now)} : Apply(out, now)

\* The hooks that can run in makeMove(gameId, position) by sender: those of
\* hooks when sender is a contract of Reentrants and the move mints a
\* trophy, none otherwise (the hook is called by the mint only).
HooksIn(sender, gameId, position, hooks) ==
    LET plain == makeMove(Storage, sender, gameId, position, now, NoHook)
    IN  IF sender \in Reentrants /\ plain.st.tokenIdCounter # tokenIdCounter
        THEN hooks ELSE {NoHook}

\* makeMove(gameId, position) by a caller of callers, for any id of ids and
\* any position of positions; a caller of Reentrants runs any hook of hooks.
MakeMove(callers, ids, positions, hooks) ==
    \E sender \in callers, gameId \in ids, position \in positions :
        \E hook \in HooksIn(sender, gameId, position, hooks) :
            \E out \in {makeMove(Storage, sender, gameId, position, now, hook)} :
                Apply(out, now)

\* Any caller, moves on the cells 0 .. MaxCell and at the out-of-range
\* position 9: games are won along the lines inside those cells.  With one
\* game no call a hook makes can be accepted, so no hook calls back.
Next ==
    \/ CreateGame(Addresses, MaxGames)
    \/ JoinGame(Addresses, GameIds)
    \/ MakeMove(Addresses, GameIds, Positions, {NoHook})

Spec == Init /\ [][Next]_vars

\* Two callers, moves on all nine cells and at position 9: every game of
\* tic-tac-toe, draws included.
NextFull ==
    \/ CreateGame(Duo, MaxGames)
    \/ JoinGame(Duo, GameIds)
    \/ MakeMove(Duo, GameIds, AllPositions, {NoHook})

SpecFull == Init /\ [][NextFull]_vars

\* The hooks caller a runs under SpecMulti: none, or any call on the ids
\* and positions a submits there, createGame while fewer than MaxGamesMulti
\* games exist.
MultiHooks(a) ==
    {NoHook} \cup
    {h \in Callbacks(MultiIds, RowOf(a)) :
        h.op = "createGame" => gameCounter < MaxGamesMulti}

\* makeMove by a caller of callers on a cell of the caller's row.
MakeRowMove(callers) ==
    \E a \in callers : MakeMove({a}, MultiIds, RowOf(a), MultiHooks(a))

\* Two callers, of which caller 2 is a contract whose hook calls back, up
\* to MaxGamesMulti games, each caller moving on its own row: the creator
\* of a game can win it while other games exist.
NextMulti ==
    \/ CreateGame(Duo, MaxGamesMulti)
    \/ JoinGame(Duo, MultiIds)
    \/ MakeRowMove(Duo)

SpecMulti == Init /\ [][NextMulti]_vars

\* A pure call leaves the storage and the record of the latest call.
Pure ==
    UNCHANGED <<gameCounter, tokenIdCounter, games, playerGames, playerWins,
                playerGamesPlayed, owners, now, events, result, clients>>

\* Every value of CellState[9].
Boards == [Cells -> CellState]

\* The marks a player places.
PlayerMarks == {"X", "O"}

\* The deployed contract and the arguments of a call of the board engine:
\* any board, any mark.
InitBoard ==
    /\ Deployed
    /\ \E board \in Boards, mark \in PlayerMarks :
          returned = [fn |-> "args", board |-> board, mark |-> mark]

\* _checkWinner(board, mark) on the arguments.
CheckWinner ==
    /\ returned.fn = "args"
    /\ returned' = [fn |-> "checkWinner", board |-> returned.board,
                    mark |-> returned.mark,
                    value |-> checkWinner(returned.board, returned.mark)]
    /\ Pure

\* _isBoardFull(board) on the arguments' board.
IsBoardFull ==
    /\ returned.fn = "args"
    /\ returned' = [fn |-> "isBoardFull", board |-> returned.board,
                    value |-> isBoardFull(returned.board)]
    /\ Pure

\* The board engine's two functions on every board and every mark.
NextBoard ==
    \/ CheckWinner
    \/ IsBoardFull

SpecBoard == InitBoard /\ [][NextBoard]_vars

\* The token ids tokenURI is called with: 0, small values of one, two and
\* three digits, and the largest number the checker's integers hold.
TokenArgs == {0, 7, 42, 123, 2147483647}

\* tokenURI(tokenId) for a token id of tokenIds; the record of the call
\* notes the owner the token has at that moment, 0 when it is not minted.
TokenURI(tokenIds) ==
    \E tokenId \in tokenIds :
        /\ returned' = [fn |-> "tokenURI", tokenId |-> tokenId,
                        ownerThen |-> IF tokenId \in Keys THEN owners[tokenId]
                                      ELSE 0,
                        value |-> tokenURI(tokenId)]
        /\ Pure

\* makeMove by a caller of callers on a cell of the caller's row, on the
\* ids of Spec, no hook calling back.
MakePlainRowMove(callers) ==
    \E a \in callers : MakeMove({a}, GameIds, RowOf(a), {NoHook})

\* Two callers play one game, each on its own row, so that trophy 0 gets
\* minted, and tokenURI is called at any moment.
NextToken ==
    \/ CreateGame(Duo, MaxGames)
    \/ JoinGame(Duo, GameIds)
    \/ MakePlainRowMove(Duo)
    \/ TokenURI(TokenArgs)

SpecToken == Init /\ [][NextToken]_vars

\* A block with a later timestamp is mined: the calls that follow run at
\* that timestamp.  The storage and the record of the latest call stay.
Mine ==
    /\ \E t \in (now + 1) .. MaxTime : now' = t
    /\ UNCHANGED <<gameCounter, tokenIdCounter, games, playerGames,
                   playerWins, playerGamesPlayed, owners, events, result,
                   returned, clients>>

\* Two callers play one game, each on its own row, in blocks whose
\* timestamps never decrease.
NextClock ==
    \/ CreateGame(Duo, MaxGames)
    \/ JoinGame(Duo, GameIds)
    \/ MakePlainRowMove(Duo)
    \/ Mine

SpecClock == Init /\ [][NextClock]_vars

\* The byte values of the strings _base64Encode is applied to: the least
\* and the greatest, and values on both sides of the 6-bit boundaries.
ByteSample == {0, 1, 63, 64, 77, 128, 252, 255}

\* The byte strings of at most MaxLen bytes of ByteSample.
ByteStrings == UNION {[1 .. n -> ByteSample] : n \in 0 .. MaxLen}

\* The deployed contract and the argument of a call of _base64Encode: any
\* byte string.
InitBase64 ==
    /\ Deployed
    /\ \E data \in ByteStrings : returned = [fn |-> "data", data |-> data]

\* _base64Encode(data) on the argument.
Base64Encode ==
    /\ returned.fn = "data"
    /\ returned' = [fn |-> "base64Encode", data |-> returned.data,
                    value |-> base64Encode(returned.data)]
    /\ Pure

\* _base64Encode on every byte string.
NextBase64 == Base64Encode

SpecBase64 == InitBase64 /\ [][NextBase64]_vars

(* ------------------------------ the client ---------------------------- *)

\* setCurrentGame(updatedGame) and what follows it in refreshGameData,
\* handleCellClick and the poll: the winning cells are set when the game
\* is Finished.  getGame builds a new object at every call, so the page's
\* state changes, refreshGameData (a callback that depends on currentGame)
\* is a new function, and the effect that depends on it is due again.
withGame(page, updatedGame) ==
    [page EXCEPT
        !.currentGame = updatedGame,
        !.winningCells =
            IF updatedGame.state = "Finished"
            THEN findWinningCells(updatedGame.board, winnerMark(updatedGame))
            ELSE @,
        !.refreshDue = TRUE]

\* refreshGameData that loads the statistics and the open games only and
\* leaves the game shown.
refreshGameData_StatsOnly(page, currentGame, st) == page

\* refreshGameData() as far as the game shown goes, with currentGame the
\* value its closure holds: the game is read again and shown.
refreshGameData(page, currentGame, st) ==
    IF currentGame.isNull THEN page
    ELSE withGame(page, useContractGetGame(st, currentGame.id))

\* The reads of a client leave the contract as it is.
Reads ==
    UNCHANGED <<gameCounter, tokenIdCounter, games, playerGames, playerWins,
                playerGamesPlayed, owners, now, events, result, returned>>

\* handleCreateGame of the client of a wallet of wallets, while fewer than
\* cap games exist: createGame(), then the new game, whose id is read from
\* the GameCreated event, is read and shown.
HandleCreateGame(wallets, cap) ==
    \E c \in wallets :
        /\ gameCounter < cap
        /\ LET out == createGame(Storage, c, now)
               gameId == out.events[1].gameId
               game == useContractGetGame(out.st, gameId)
           IN  /\ ApplyCall(out, now)
               /\ clients' = [clients EXCEPT ![c] =
                      [currentGame |-> game, winningCells |-> <<>>,
                       refreshDue |-> TRUE]]

\* handleJoinGame(gameId): joinGame(gameId); when it is accepted the game
\* is read and shown and refreshGameData() is called, with the currentGame
\* of the render the handler belongs to.
HandleJoinGame(wallets, ids) ==
    \E c \in wallets, gameId \in ids :
        LET out == joinGame(Storage, c, gameId, now)
            page == clients[c]
            joined == [currentGame |-> useContractGetGame(out.st, gameId),
                       winningCells |-> <<>>, refreshDue |-> TRUE]
        IN  /\ ApplyCall(out, now)
            /\ clients' = [clients EXCEPT ![c] =
                   IF out.result = "ok"
                   THEN refreshGameData(joined, page.currentGame, out.st)
                   ELSE page]

\* handleCellClick(position) while the game shown is InProgress:
\* makeMove(currentGame.id, position); when it is accepted the game is read
\* and shown, and refreshGameData() is called when the game is Finished.
HandleCellClick(wallets, positions) ==
    \E c \in wallets, position \in positions :
        LET page == clients[c] IN
        /\ ~page.currentGame.isNull
        /\ page.currentGame.state = "InProgress"
        /\ LET out == makeMove(Storage, c, page.currentGame.id, position, now,
                               NoHook)
               updatedGame == useContractGetGame(out.st, page.currentGame.id)
               moved == withGame(page, updatedGame)
           IN  /\ ApplyCall(out, now)
               /\ clients' = [clients EXCEPT ![c] =
                      IF out.result # "ok" THEN page
                      ELSE IF updatedGame.state = "Finished"
                      THEN refreshGameData(moved, page.currentGame, out.st)
                      ELSE moved]

\* The effect on [isConnected, address, refreshGameData]: it runs
\* refreshGameData() after every render in which refreshGameData changed.
RefreshGameData(wallets) ==
    \E c \in wallets :
        LET page == clients[c] IN
        /\ page.refreshDue
        /\ clients' = [clients EXCEPT ![c] =
               refreshGameData([page EXCEPT !.refreshDue = FALSE],
                               page.currentGame, Storage)]
        /\ Reads

\* The user presses refresh: onRefresh = refreshGameData.
PressRefresh(wallets) ==
    \E c \in wallets :
        /\ clients' = [clients EXCEPT ![c] =
               refreshGameData(clients[c], clients[c].currentGame, Storage)]
        /\ Reads

\* The interval of the poll effect fires; it is installed while the game
\* shown is InProgress.  The game is read and shown when it differs from
\* the game shown.
Poll(wallets) ==
    \E c \in wallets :
        LET page == clients[c] IN
        /\ ~page.currentGame.isNull
        /\ page.currentGame.state = "InProgress"
        /\ LET updatedGame == useContractGetGame(Storage, page.currentGame.id)
               polled == withGame(page, updatedGame)
           IN  clients' = [clients EXCEPT ![c] =
                   IF updatedGame = page.currentGame THEN page
                   ELSE IF updatedGame.state = "Finished"
                   THEN refreshGameData(polled, page.currentGame, Storage)
                   ELSE polled]
        /\ Reads

\* The cells the user of wallet c clicks under SpecClient.
ClickRow(wallets) ==
    \E c \in wallets : HandleCellClick({c}, RowOf(c))

\* Two wallets, each with its client, play one game through the pages.
NextClient ==
    \/ HandleCreateGame(Duo, MaxGames)
    \/ HandleJoinGame(Duo, GameIds)
    \/ ClickRow(Duo)
    \/ RefreshGameData(Duo)
    \/ PressRefresh(Duo)
    \/ Poll(Duo)

\* React runs a due effect, and an installed interval fires, as long as the
\* page is open; the reads succeed.  Nothing makes a user act.
SpecClient ==
    /\ Init
    /\ [][NextClient]_vars
    /\ \A c \in Duo : WF_vars(RefreshGameData({c}))
    /\ \A c \in Duo : WF_vars(Poll({c}))

(* ------------------------- claims: vocabulary ------------------------- *)

\* The eight lines of the board: three rows, three columns, two diagonals.
Lines ==
    {{0, 1, 2}, {3, 4, 5}, {6, 7, 8}, {0, 3, 6}, {1, 4, 7}, {2, 5, 8},
     {0, 4, 8}, {2, 4, 6}}

\* Some line of the board is fully occupied by mark.
HasLine(board, mark) == \E l \in Lines : \A c \in l : board[c] = mark

\* The number of non-Empty cells of a board.
Marks(board) == Cardinality({c \in Cells : board[c] # "Empty"})

\* The latest call was accepted and was a makeMove on game g.
MovedOn(g) ==
    /\ result = "ok"
    /\ Len(events) > 0
    /\ events[1].name = "MoveMade"
    /\ events[1].gameId = g

\* The latest call was accepted and was a joinGame on game g.
JoinedOn(g) ==
    /\ result = "ok"
    /\ Len(events) > 0
    /\ events[1].name = "GameJoined"
    /\ events[1].gameId = g

(* -------------------------------- C1 ---------------------------------- *)

\* One step of game g's state: unchanged, or WaitingForPlayer -> InProgress
\* by an accepted joinGame(g), or InProgress -> Finished / Draw by an
\* accepted makeMove(g, ...).
C1_Step(g) ==
    \/ games'[g].state = games[g].state
    \/ /\ games[g].state = "WaitingForPlayer"
       /\ games'[g].state = "InProgress"
       /\ JoinedOn(g)'
    \/ /\ games[g].state = "InProgress"
       /\ games'[g].state \in {"Finished", "Draw"}
       /\ MovedOn(g)'

\* C1: over every sequence of createGame/joinGame/makeMove calls, a game's
\* state changes only WaitingForPlayer -> InProgress (by a successful
\* joinGame) and InProgress -> Finished or Draw (by a successful makeMove);
\* it never moves backward, never skips InProgress and never leaves
\* Finished or Draw.
C1_StateLifecycle == [][\A g \in GameIds : C1_Step(g)]_vars

\* A game that went through the whole lifecycle and ended in a draw.
C1_Witness ==
    \E g \in GameIds : games[g].state = "Draw" /\ MovedOn(g)

(* -------------------------------- C2 ---------------------------------- *)

\* The mark of a game's winner: X for player1, O for player2.
MarkOfWinner(game) == IF game.winner = game.player1 THEN "X" ELSE "O"

\* C2: a Finished game's winner is player1 or player2 and the board holds a
\* complete line of the winner's mark; a Draw game's board has no Empty
\* cell and no complete line of X or of O.
C2_TerminalBoards ==
    \A g \in GameIds :
        /\ games[g].state = "Finished" =>
              /\ games[g].winner # 0
              /\ games[g].winner \in {games[g].player1, games[g].player2}
              /\ HasLine(games[g].board, MarkOfWinner(games[g]))
        /\ games[g].state = "Draw" =>
              /\ \A c \in Cells : games[g].board[c] # "Empty"
              /\ ~HasLine(games[g].board, "X")
              /\ ~HasLine(games[g].board, "O")

\* The draw of the contract's test: X on 0, 2, 3, 4, 7 and O on 1, 5, 6, 8.
C2_Witness ==
    \E g \in GameIds :
        /\ games[g].state = "Draw"
        /\ \A c \in {0, 2, 3, 4, 7} : games[g].board[c] = "X"
        /\ \A c \in {1, 5, 6, 8} : games[g].board[c] = "O"

(* -------------------------------- C3 ---------------------------------- *)

\* winner is set exactly in the Finished games.
C3_SetIffFinished ==
    \A g \in GameIds : (games[g].winner # 0) <=> (games[g].state = "Finished")

\* A winner that is set stays as it is.
C3_Keeps ==
    \A g \in GameIds :
        games[g].winner # 0 => games'[g].winner = games[g].winner

\* C3: in every reachable state winner is set if and only if state is
\* Finished (unset in WaitingForPlayer, InProgress and Draw), and once set
\* the winner never changes.
C3_WinnerIffFinished == [](C3_SetIffFinished) /\ [][C3_Keeps]_vars

\* A game won by player2, with a call applied after the win.
C3_Witness ==
    \E g \in GameIds :
        /\ games[g].state = "Finished"
        /\ games[g].winner = games[g].player2
        /\ result # "ok"

(* -------------------------------- C4 ---------------------------------- *)

\* C4: an InProgress game's board has no complete line of X or of O and
\* has at least one Empty cell.
C4_InProgressBoardOpen ==
    \A g \in GameIds :
        games[g].state = "InProgress" =>
            /\ ~HasLine(games[g].board, "X")
            /\ ~HasLine(games[g].board, "O")
            /\ \E c \in Cells : games[g].board[c] = "Empty"

\* An accepted eighth move that left the game InProgress.
C4_Witness ==
    \E g \in GameIds :
        /\ games[g].state = "InProgress"
        /\ Marks(games[g].board) = 8
        /\ MovedOn(g)

(* -------------------------------- C5 ---------------------------------- *)

\* The result C5 gives makeMove(g, position) by sender: the error of the
\* first violated condition in the order NotFound, NotInProgress,
\* NotAParticipant, NotYourTurn, OutOfRange, CellOccupied, and acceptance
\* when all six hold.
C5_Claimed(sender, g, position) ==
    IF g >= gameCounter THEN "GameNotFound"
    ELSE IF games[g].state # "InProgress" THEN "GameNotInProgress"
    ELSE IF sender \notin {games[g].player1, games[g].player2} THEN "NotAPlayer"
    ELSE IF sender # games[g].currentTurn THEN "NotYourTurn"
    ELSE IF position \notin Cells THEN "InvalidPosition"
    ELSE IF games[g].board[position] # "Empty" THEN "CellNotEmpty"
    ELSE "ok"

\* C5: makeMove is accepted exactly when the game exists, is InProgress, the
\* caller is a participant and the player to move, the position is in 0..8
\* and the cell is Empty; a rejected call reports the first violated
\* condition in that order.
C5_MoveAcceptedExactly ==
    \A sender \in Addresses, g \in GameIds, position \in AllPositions :
        makeMove(Storage, sender, g, position, now, NoHook).result
            = C5_Claimed(sender, g, position)

(* -------------------------------- C6 ---------------------------------- *)

\* C6 as stated: makeMove with position 9 fails with InvalidPosition for
\* every caller and every game id, whatever the game's state.
C6_AlwaysOutOfRange ==
    \A sender \in Addresses, g \in GameIds :
        makeMove(Storage, sender, g, 9, now, NoHook).result = "InvalidPosition"

\* C6, amended: makeMove with position 9 never succeeds; it fails with
\* InvalidPosition exactly when the game exists, is InProgress and the caller
\* is the player to move, and otherwise with the earlier error: GameNotFound,
\* GameNotInProgress, NotAPlayer or NotYourTurn.
C6_OutOfRangeAfterEarlierChecks ==
    \A sender \in Addresses, g \in GameIds :
        makeMove(Storage, sender, g, 9, now, NoHook).result =
            IF g >= gameCounter THEN "GameNotFound"
            ELSE IF games[g].state # "InProgress" THEN "GameNotInProgress"
            ELSE IF sender \notin {games[g].player1, games[g].player2}
                 THEN "NotAPlayer"
            ELSE IF sender # games[g].currentTurn THEN "NotYourTurn"
            ELSE "InvalidPosition"

\* The player to move was refused position 9 on a game in progress.
C6_Witness ==
    /\ result = "InvalidPosition"
    /\ \E g \in GameIds : games[g].state = "InProgress"

(* -------------------------------- C7 ---------------------------------- *)

\* C7: a rejected call leaves all game records, both id counters, the
\* players' game lists, wins and totalGames counters and the trophy owners
\* unchanged, and emits no notification.
C7_RejectedChangesNothing ==
    [][result' # "ok" =>
          /\ UNCHANGED <<gameCounter, tokenIdCounter, games, playerGames,
                         playerWins, playerGamesPlayed, owners>>
          /\ events' = <<>>]_vars

\* A joinGame was refused on a game that had already started.
C7_Witness ==
    /\ result = "GameNotWaitingForPlayer"
    /\ \E g \in GameIds : Marks(games[g].board) > 0

(* -------------------------------- C8 ---------------------------------- *)

\* An accepted makeMove on g: the cell at the position was Empty and now
\* holds the caller's mark, the other eight cells are as before.
C8_Step(g) ==
    MovedOn(g)' =>
        LET position == events'[1].position
            caller == events'[1].player
        IN  /\ position \in Cells
            /\ caller \in {games[g].player1, games[g].player2}
            /\ games[g].board[position] = "Empty"
            /\ games'[g].board[position] =
                  IF caller = games[g].player1 THEN "X" ELSE "O"
            /\ \A c \in Cells \ {position} :
                  games'[g].board[c] = games[g].board[c]
            /\ Marks(games'[g].board) = Marks(games[g].board) + 1

\* C8: every accepted makeMove changes exactly one cell of that game's
\* board, from Empty to the caller's mark (X for player1, O for player2);
\* the number of non-Empty cells grows by one.
C8_OneCellPerMove == [][\A g \in GameIds : C8_Step(g)]_vars

\* player2 has just placed an O.
C8_Witness ==
    \E g \in GameIds :
        /\ MovedOn(g)
        /\ events[1].player = games[g].player2
        /\ games[g].board[events[1].position] = "O"

(* -------------------------------- C9 ---------------------------------- *)

\* An accepted makeMove on g is made by the player to move, the first one
\* by player1, and when the game stays InProgress the turn passes to the
\* other participant.
C9_Step(g) ==
    MovedOn(g)' =>
        LET caller == events'[1].player
        IN  /\ caller = games[g].currentTurn
            /\ Marks(games[g].board) = 0 => caller = games[g].player1
            /\ games'[g].state = "InProgress" =>
                  /\ games'[g].currentTurn # caller
                  /\ games'[g].currentTurn \in
                        {games[g].player1, games[g].player2}

\* C9: after every accepted non-terminal makeMove currentTurn is the
\* participant who did not just move, so accepted moves alternate between
\* player1 and player2, starting with player1.
C9_TurnAlternates == [][\A g \in GameIds : C9_Step(g)]_vars

\* player2 has just made a non-terminal move and the turn is player1's.
C9_Witness ==
    \E g \in GameIds :
        /\ MovedOn(g)
        /\ games[g].state = "InProgress"
        /\ events[1].player = games[g].player2
        /\ games[g].currentTurn = games[g].player1

(* -------------------------------- C10 --------------------------------- *)

\* C10: an InProgress game's currentTurn is player1 or player2, never the
\* unset identity, and right after a successful joinGame it is player1.
C10_TurnIsAParticipant ==
    \A g \in GameIds :
        /\ games[g].state = "InProgress" =>
              /\ games[g].currentTurn # 0
              /\ games[g].currentTurn \in {games[g].player1, games[g].player2}
        /\ JoinedOn(g) => games[g].currentTurn = games[g].player1

\* A game has just been joined.
C10_Witness ==
    \E g \in GameIds : JoinedOn(g) /\ games[g].state = "InProgress"

(* -------------------------------- C11 --------------------------------- *)

\* An accepted makeMove on g, by the board it leaves: a complete line of the
\* caller's mark ends the game as Finished with the caller as winner; else a
\* full board ends it as Draw; else the game stays InProgress and the turn
\* passes.  Draw is entered only from a board with eight marks.
C11_Step(g) ==
    MovedOn(g)' =>
        LET caller == events'[1].player
            mark == IF caller = games[g].player1 THEN "X" ELSE "O"
            other == IF caller = games[g].player1 THEN games[g].player2
                     ELSE games[g].player1
            board == games'[g].board
        IN  /\ games[g].state = "InProgress"
            /\ IF HasLine(board, mark)
               THEN /\ games'[g].state = "Finished"
                    /\ games'[g].winner = caller
               ELSE IF Marks(board) = 9
               THEN /\ games'[g].state = "Draw"
                    /\ games'[g].winner = 0
               ELSE /\ games'[g].state = "InProgress"
                    /\ games'[g].winner = 0
                    /\ games'[g].currentTurn = other
            /\ games'[g].state = "Draw" => Marks(games[g].board) = 8

\* C11: every accepted makeMove has exactly one of three outcomes, tested
\* in this order: the caller's mark completes a line and the game becomes
\* Finished; otherwise the board is full and the game becomes Draw;
\* otherwise the turn switches.  A ninth mark that completes a line yields
\* Finished, never Draw, and Draw is entered only by the move that fills
\* the ninth cell.
C11_ThreeOutcomes == [][\A g \in GameIds : C11_Step(g)]_vars

\* The ninth mark has just completed a line: the game is Finished.
C11_Witness ==
    \E g \in GameIds :
        /\ MovedOn(g)
        /\ Marks(games[g].board) = 9
        /\ games[g].state = "Finished"

(* -------------------------------- C12 --------------------------------- *)

\* A move that ends game g leaves currentTurn with the mover, where it was
\* before the move, and an ended game's currentTurn stays as it is.
C12_Step(g) ==
    /\ (MovedOn(g)' /\ games'[g].state \in {"Finished", "Draw"}) =>
          /\ games'[g].currentTurn = events'[1].player
          /\ games'[g].currentTurn = games[g].currentTurn
    /\ games[g].state \in {"Finished", "Draw"} =>
          games'[g].currentTurn = games[g].currentTurn

\* C12: a terminal move (win or draw) does not switch the turn: in a
\* Finished or Draw game currentTurn still designates the participant who
\* made the last move, and it never changes afterwards.
C12_TerminalKeepsTurn == [][\A g \in GameIds : C12_Step(g)]_vars

\* A drawn game whose last mover, player1, still holds the turn after a
\* later call was applied.
C12_Witness ==
    \E g \in GameIds :
        /\ games[g].state = "Draw"
        /\ games[g].currentTurn = games[g].player1
        /\ result # "ok"

(* -------------------------------- C13 --------------------------------- *)

\* The result C13 gives joinGame(g) by sender.
C13_Claimed(sender, g) ==
    IF g >= gameCounter THEN "GameNotFound"
    ELSE IF games[g].state # "WaitingForPlayer" THEN "GameNotWaitingForPlayer"
    ELSE IF sender = games[g].player1 THEN "CannotJoinOwnGame"
    ELSE "ok"

\* The storage C13 gives an accepted joinGame(g) by sender.
C13_Joined(sender, g, st) ==
    /\ st.games[g].player2 = sender
    /\ st.games[g].state = "InProgress"
    /\ st.games[g].board = games[g].board
    /\ st.games[g].player1 = games[g].player1
    /\ st.games[g].currentTurn = games[g].currentTurn
    /\ st.games[g].winner = games[g].winner
    /\ \A h \in Keys \ {g} : st.games[h] = games[h]
    /\ st.playerGames[sender] = Append(playerGames[sender], g)
    /\ \A a \in Addresses \ {sender} : st.playerGames[a] = playerGames[a]
    /\ \A a \in Addresses :
          st.playerGamesPlayed[a] =
              playerGamesPlayed[a]
                  + (IF a \in {games[g].player1, sender} THEN 1 ELSE 0)
    /\ st.playerWins = playerWins
    /\ st.owners = owners
    /\ st.gameCounter = gameCounter
    /\ st.tokenIdCounter = tokenIdCounter

\* C13: joinGame(g) fails with GameNotFound if the game has no record, with
\* GameNotWaitingForPlayer if it is not WaitingForPlayer, and with
\* CannotJoinOwnGame if the caller is player1; otherwise it sets player2 to
\* the caller and state to InProgress, appends g to the caller's game list
\* and increments totalGames of player1 and of the caller by one each,
\* leaving board, player1, currentTurn and winner unchanged.
C13_JoinGameEffects ==
    \A sender \in Addresses, g \in GameIds :
        LET out == joinGame(Storage, sender, g, now)
        IN  /\ out.result = C13_Claimed(sender, g)
            /\ out.result = "ok" =>
                  /\ C13_Joined(sender, g, out.st)
                  /\ out.events = <<GameJoined(g, sender)>>
            /\ out.result # "ok" => out.st = Storage

\* A game has just been joined: both participants count one game played
\* and the joiner's list ends with the game.
C13_Witness ==
    \E g \in GameIds :
        /\ JoinedOn(g)
        /\ games[g].player2 = events[1].player2
        /\ playerGamesPlayed[games[g].player1] = 1
        /\ playerGamesPlayed[games[g].player2] = 1
        /\ playerGames[games[g].player2] = <<g>>

(* -------------------------------- C14 --------------------------------- *)

\* While game g waits, a joinGame(g) by anyone but its creator would be
\* accepted; once it has a player2, a joinGame(g) by anyone fails with
\* GameNotWaitingForPlayer.
C14_FirstJoinWins ==
    \A g \in GameIds, sender \in Addresses :
        /\ (g < gameCounter /\ games[g].player2 = 0 /\ sender # games[g].player1)
              => joinGame(Storage, sender, g, now).result = "ok"
        /\ games[g].player2 # 0
              => joinGame(Storage, sender, g, now).result
                    = "GameNotWaitingForPlayer"

\* An accepted joinGame(g) finds g without a player2 and makes its caller
\* player2; a player2 that is set stays as it is.
C14_Step(g) ==
    /\ JoinedOn(g)' =>
          /\ games[g].player2 = 0
          /\ games[g].state = "WaitingForPlayer"
          /\ games'[g].player2 = events'[1].player2
          /\ games'[g].player2 # 0
    /\ games[g].player2 # 0 => games'[g].player2 = games[g].player2

\* C14: at most one joinGame ever succeeds per game: when several callers
\* submit joinGame for the same waiting game, in whatever order the calls
\* are applied, the first applied join of a non-creator succeeds and every
\* later one fails with GameNotWaitingForPlayer; player2 is assigned once
\* and never changes.
C14_OneJoinPerGame ==
    [](C14_FirstJoinWins) /\ [][\A g \in GameIds : C14_Step(g)]_vars

\* A joinGame was refused on a game that had been joined and not yet played.
C14_Witness ==
    \E g \in GameIds :
        /\ result = "GameNotWaitingForPlayer"
        /\ games[g].player2 # 0
        /\ games[g].state = "InProgress"
        /\ Marks(games[g].board) = 0

(* -------------------------------- C15 --------------------------------- *)

\* The errors C15 gives the call applied second.
C15_Errors == {"NotYourTurn", "CellNotEmpty", "GameNotInProgress"}

\* makeMove(g, position) by sender, applied now, fails with one of
\* C15_Errors and changes nothing.
C15_Fails(sender, g, position) ==
    LET out == makeMove(Storage, sender, g, position, now, NoHook)
    IN  /\ out.result \in C15_Errors
        /\ out.st = Storage
        /\ out.events = <<>>

\* The number of cells of a board that hold mark.
CountOf(board, mark) == Cardinality({c \in Cells : board[c] = mark})

\* C15: when a participant's makeMove on game g has just been applied, a
\* second makeMove of the same participant on g, at any position, and a
\* makeMove of either participant for the same cell fail with NotYourTurn,
\* CellNotEmpty or GameNotInProgress and change nothing; so no player
\* places two marks in a row (X leads O by zero or one mark) and no cell is
\* overwritten.
C15_SecondMoveFails ==
    \A g \in GameIds :
        /\ MovedOn(g) =>
              /\ \A position \in AllPositions :
                    C15_Fails(events[1].player, g, position)
              /\ \A sender \in {games[g].player1, games[g].player2} :
                    C15_Fails(sender, g, events[1].position)
        /\ CountOf(games[g].board, "X") - CountOf(games[g].board, "O")
              \in {0, 1}

\* Of two calls for the same cell of a game in progress, the one applied
\* second was refused with CellNotEmpty.
C15_Witness ==
    \E g \in GameIds :
        /\ result = "CellNotEmpty"
        /\ games[g].state = "InProgress"
        /\ Marks(games[g].board) > 0

(* -------------------------------- C16 --------------------------------- *)

\* A winning makeMove on g by itself: it emits its own four events, mints
\* one trophy and writes nothing of another operation (no game is created,
\* no other game record changes, no game list or totalGames counter moves).
C16_Step(g) ==
    (MovedOn(g)' /\ games'[g].state = "Finished") =>
        LET winner == events'[1].player
            position == events'[1].position
        IN  /\ events' = <<MoveMade(g, winner, position),
                           Transfer(0, winner, tokenIdCounter),
                           WinnerNFTMinted(tokenIdCounter, winner, g),
                           GameWon(g, winner)>>
            /\ tokenIdCounter' = tokenIdCounter + 1
            /\ gameCounter' = gameCounter
            /\ \A h \in Keys \ {g} : games'[h] = games[h]
            /\ playerGames' = playerGames
            /\ playerGamesPlayed' = playerGamesPlayed

\* C16: a winning makeMove is indivisible: from its mark placement to its
\* completion no other state-mutating operation is applied, and the
\* trophy-minting step gives no party an opportunity to run another
\* operation of the contract inside the move.
C16_WinIsIndivisible == [][\A g \in MultiIds : C16_Step(g)]_vars

(* -------------------------------- C17 --------------------------------- *)

\* makeMove(g, position) by sender passes the six checks and completes a
\* line of the sender's mark.
C17_WinningMove(sender, g, position) ==
    /\ C5_Claimed(sender, g, position) = "ok"
    /\ LET mark == IF sender = games[g].player1 THEN "X" ELSE "O"
       IN  HasLine([games[g].board EXCEPT ![position] = mark], mark)

\* C17: trophy minting always succeeds on a win, for every caller identity:
\* a winning move is accepted, ends the game as Finished and mints the
\* trophy to the caller; minting is never a reason for it to abort.
C17_MintNeverAborts ==
    \A sender \in Addresses, g \in GameIds, position \in Cells :
        C17_WinningMove(sender, g, position) =>
            LET out == makeMove(Storage, sender, g, position, now, NoHook)
            IN  /\ out.result = "ok"
                /\ out.st.games[g].state = "Finished"
                /\ out.st.games[g].winner = sender
                /\ out.st.owners[tokenIdCounter] = sender

(* -------------------------------- C18 --------------------------------- *)

\* The Finished games won by P.
GamesWonBy(P) ==
    {g \in Keys : games[g].state = "Finished" /\ games[g].winner = P}

\* The trophies owned by P.
TrophiesOf(P) == {k \in Keys : owners[k] = P}

\* The events of evs with the given name and winner.
EventsFor(evs, name, P) ==
    {i \in 1 .. Len(evs) : evs[i].name = name /\ evs[i].winner = P}

\* wins(P), the Finished games won by P and the trophies owned by P are
\* equally many.
C18_Balanced ==
    \A P \in Addresses :
        /\ playerWins[P] = Cardinality(GamesWonBy(P))
        /\ playerWins[P] = Cardinality(TrophiesOf(P))

\* One step: an accepted makeMove that ends its game as Finished announces
\* the win of its caller; each announced win of P adds one to wins(P) and
\* one trophy to P's, and a step that announces no win (a draw, a
\* non-terminal move, any other call) changes no wins and mints nothing.
C18_Step ==
    /\ \A g \in Keys :
          MovedOn(g)' =>
              LET caller == events'[1].player
                  last == events'[Len(events')]
              IN  IF games'[g].state = "Finished"
                  THEN last = GameWon(g, caller)
                  ELSE /\ last.name # "GameWon"
                       /\ playerWins' = playerWins
                       /\ owners' = owners
                       /\ tokenIdCounter' = tokenIdCounter
    /\ \A P \in Addresses :
          LET won == Cardinality(EventsFor(events', "GameWon", P))
              minted == Cardinality(EventsFor(events', "WinnerNFTMinted", P))
          IN  /\ playerWins'[P] = playerWins[P] + won
              /\ Cardinality(TrophiesOf(P)') = Cardinality(TrophiesOf(P)) + minted
              /\ Cardinality(GamesWonBy(P)') = Cardinality(GamesWonBy(P)) + won
              /\ won = minted

\* C18: for every identity P, wins(P) equals the number of Finished games
\* whose winner is P and the number of trophies P owns; a winning makeMove
\* increments wins for the winner only and mints exactly one trophy, owned
\* by the winner; a draw or a non-terminal move mints none and changes no
\* wins.
C18_WinsMatchTrophies == [](C18_Balanced) /\ [][C18_Step]_vars

\* player2 has just won: one win, one Finished game, one trophy.
C18_Witness ==
    \E g \in GameIds :
        /\ MovedOn(g)
        /\ games[g].state = "Finished"
        /\ games[g].winner = games[g].player2
        /\ playerWins[games[g].player2] = 1
        /\ playerWins[games[g].player1] = 0
        /\ TrophiesOf(games[g].player2) # {}

(* -------------------------------- C19 --------------------------------- *)

\* The Finished games.
FinishedGames == {g \in Keys : games[g].state = "Finished"}

\* The trophy counter is the number of Finished games, and the trophies
\* minted are exactly the ids below it, each owned by an identity.
C19_Sequential ==
    /\ tokenIdCounter = Cardinality(FinishedGames)
    /\ \A k \in Keys : (owners[k] # 0) <=> (k < tokenIdCounter)

\* One step: an accepted makeMove that ends its game as Finished, the
\* (tokenIdCounter + 1)-th win, mints the trophy numbered tokenIdCounter to
\* its caller; every trophy the step mints was not minted before; a trophy
\* minted before keeps its owner.
C19_Step ==
    /\ \A g \in Keys :
          (MovedOn(g)' /\ games'[g].state = "Finished") =>
              LET winner == events'[1].player
              IN  /\ owners[tokenIdCounter] = 0
                  /\ owners'[tokenIdCounter] = winner
                  /\ games'[g].winner = winner
                  /\ \E i \in 1 .. Len(events') :
                        events'[i] = WinnerNFTMinted(tokenIdCounter, winner, g)
                  /\ tokenIdCounter' > tokenIdCounter
    /\ \A k \in Keys : owners[k] # 0 => owners'[k] = owners[k]
    /\ \A k \in Keys :
          (owners[k] = 0 /\ owners'[k] # 0) =>
              /\ tokenIdCounter <= k
              /\ k < tokenIdCounter'

\* C19: trophy ids are allocated sequentially from 0 by a counter of their
\* own: the k-th win mints tokenId k-1 to that game's winner, no two
\* trophies share an id, the trophy counter always equals the number of
\* Finished games, and no game operation changes the owner of an existing
\* trophy.
C19_TrophyIdsSequential == [](C19_Sequential) /\ [][C19_Step]_vars

\* The second win has just minted trophy 1 while the first win's trophy 0
\* keeps its owner; game 1 was won first, so its trophy is number 0.
C19_Witness ==
    /\ MovedOn(0)
    /\ games[0].state = "Finished"
    /\ games[1].state = "Finished"
    /\ tokenIdCounter = 2
    /\ owners[0] = games[1].winner
    /\ owners[1] = games[0].winner
    /\ Len(events) = 4

(* -------------------------------- C20 --------------------------------- *)

\* The ids that hold a game record.
CreatedGames == {g \in Keys : games[g].player1 # 0}

\* createGame() by any caller is accepted and allocates the id gameCounter,
\* the id it returns and announces; gameCounter is the number of games
\* created, and the games created are exactly the ids below it.
C20_NextId ==
    /\ \A sender \in Addresses :
          LET out == createGame(Storage, sender, now)
          IN  /\ out.result = "ok"
              /\ out.events = <<GameCreated(gameCounter, sender)>>
              /\ out.st.gameCounter = gameCounter + 1
              /\ out.st.games[gameCounter].player1 = sender
    /\ gameCounter = Cardinality(CreatedGames)
    /\ \A g \in Keys : (g \in CreatedGames) <=> (g < gameCounter)

\* One step: a createGame it applies takes the id gameCounter and moves the
\* counter by one, a step that applies none leaves the counter, and the
\* player1 of a created game stays as it is.
C20_Step ==
    /\ \A i \in 1 .. Len(events') :
          events'[i].name = "GameCreated" =>
              /\ events'[i].gameId = gameCounter
              /\ gameCounter' = gameCounter + 1
              /\ games'[gameCounter].player1 = events'[i].player1
    /\ (\A i \in 1 .. Len(events') : events'[i].name # "GameCreated") =>
          gameCounter' = gameCounter
    /\ \A g \in CreatedGames : games'[g].player1 = games[g].player1

\* C20: createGame never fails for any caller and returns ids 0, 1, 2, ...
\* in order of application: the n-th createGame returns n-1, gameCounter
\* always equals the number of games created, every id below gameCounter
\* has a record and no id at or above it does, and a game's id and player1
\* never change.
C20_GameIdsSequential == [](C20_NextId) /\ [][C20_Step]_vars

\* The second createGame has just returned id 1, after game 0 had started.
C20_Witness ==
    /\ result = "ok"
    /\ Len(events) = 1
    /\ events[1].name = "GameCreated"
    /\ events[1].gameId = 1
    /\ gameCounter = 2
    /\ games[1].player1 = events[1].player1
    /\ games[0].state # "WaitingForPlayer"

(* -------------------------------- C21 --------------------------------- *)

\* The latest call was an accepted createGame, called directly.
Created ==
    /\ result = "ok"
    /\ Len(events) = 1
    /\ events[1].name = "GameCreated"

\* The record C21 gives a game just created by caller at time t.
C21_NewGame(caller, t) ==
    [player1 |-> caller, player2 |-> 0, board |-> [c \in Cells |-> "Empty"],
     currentTurn |-> caller, winner |-> 0, state |-> "WaitingForPlayer",
     createdAt |-> t, lastMoveAt |-> t]

\* An accepted createGame by caller: the game at the next id is the new
\* game, the id is appended to caller's list, nothing else changes.
C21_Step ==
    Created' =>
        LET caller == events'[1].player1
            id == events'[1].gameId
        IN  /\ id = gameCounter
            /\ games'[id] = C21_NewGame(caller, now')
            /\ \A g \in Keys \ {id} : games'[g] = games[g]
            /\ playerGames'[caller] = Append(playerGames[caller], id)
            /\ \A a \in Addresses \ {caller} : playerGames'[a] = playerGames[a]
            /\ playerWins' = playerWins
            /\ playerGamesPlayed' = playerGamesPlayed
            /\ owners' = owners
            /\ tokenIdCounter' = tokenIdCounter

\* C21: immediately after createGame by caller the new game has player1 =
\* caller, player2 unset, all nine cells Empty, currentTurn = caller,
\* winner unset and state WaitingForPlayer, its id is appended to caller's
\* game list, and nothing else changes: no existing game record, no wins or
\* totalGames counter and no trophy.
C21_CreateGameEffects == [][C21_Step]_vars

\* A second game has just been created while the first, already played
\* on, keeps its marks.
C21_Witness ==
    /\ Created
    /\ events[1].gameId = 1
    /\ games[1] = C21_NewGame(events[1].player1, now)
    /\ Marks(games[0].board) > 0
    /\ playerGames[events[1].player1][Len(playerGames[events[1].player1])] = 1

(* -------------------------------- C22 --------------------------------- *)

\* The ids of the games created and still waiting for a second player.
WaitingGames ==
    {g \in Keys : g < gameCounter /\ games[g].state = "WaitingForPlayer"}

\* The ids a sequence of ids holds.
Range(seq) == {seq[i] : i \in 1 .. Len(seq)}

\* getOpenGames returns the waiting games, each once, in ascending order.
C22_OpenIsWaiting ==
    LET open == getOpenGames(Storage)
    IN  /\ Range(open) = WaitingGames
        /\ Len(open) = Cardinality(WaitingGames)
        /\ \A i, j \in 1 .. Len(open) : i < j => open[i] < open[j]

\* Some event of evs has the given name and game id.
Announces(evs, name, g) ==
    \E i \in 1 .. Len(evs) : evs[i].name = name /\ evs[i].gameId = g

\* One step: a game enters the list by its creation, leaves it by its
\* join, and a game that was created and is not in the list stays out.
C22_Step ==
    LET open == WaitingGames
        openNext == WaitingGames'
    IN  \A g \in Keys :
            /\ (g \notin open /\ g \in openNext) =>
                  /\ g >= gameCounter
                  /\ Announces(events', "GameCreated", g)
            /\ (g \in open /\ g \notin openNext) =>
                  Announces(events', "GameJoined", g)
            /\ (g < gameCounter /\ g \notin open) => g \notin openNext

\* C22: in every reachable state getOpenGames returns exactly the ids of
\* the games whose state is WaitingForPlayer, each once, in strictly
\* ascending id order; a game is in it from its creation until its
\* successful join and never again.
C22_OpenGames == [](C22_OpenIsWaiting) /\ [][C22_Step]_vars

\* Game 0 was joined and left the list, game 1 still waits: the state of
\* the contract's test of getOpenGames.
C22_Witness ==
    /\ getOpenGames(Storage) = <<1>>
    /\ JoinedOn(0)

(* -------------------------------- C23 --------------------------------- *)

\* The games in which P is player1 or player2.
GamesOf(P) ==
    {g \in Keys : g < gameCounter /\ P \in {games[g].player1, games[g].player2}}

\* getPlayerGames(P) holds the games of P, each once.
C23_ListIsGamesOf ==
    \A P \in Addresses :
        LET list == getPlayerGames(Storage, P)
        IN  /\ Range(list) = GamesOf(P)
            /\ Len(list) = Cardinality(GamesOf(P))

\* seq is a prefix of longer.
IsPrefix(seq, longer) ==
    /\ Len(seq) <= Len(longer)
    /\ \A i \in 1 .. Len(seq) : longer[i] = seq[i]

\* One step: every list is a prefix of its next value, and each id a step
\* appends to P's list is a game P created or joined in that step, in the
\* order of the step's events.
C23_Step ==
    \A P \in Addresses :
        LET list == getPlayerGames(Storage, P)
            listNext == getPlayerGames(Storage, P)'
            added == SubSeq(listNext, Len(list) + 1, Len(listNext))
            entered == SelectSeq(events',
                           LAMBDA e : \/ e.name = "GameCreated" /\ e.player1 = P
                                      \/ e.name = "GameJoined" /\ e.player2 = P)
        IN  /\ IsPrefix(list, listNext)
            /\ Len(added) = Len(entered)
            /\ \A i \in 1 .. Len(added) : added[i] = entered[i].gameId

JoinedGamesOf(P) ==
    {g \in GamesOf(P) : games[g].state # "WaitingForPlayer"}

\* totalGames(P) is the number of joined games of P.
C24_TotalIsJoined ==
    \A P \in Addresses :
        getPlayerStats(Storage, P).totalGames = Cardinality(JoinedGamesOf(P))

\* One step: totalGames(P) grows by one for each join the step announces
\* of a game in which P is player1 or player2, and by nothing else; an
\* accepted makeMove, unless a hook joins a game inside it, leaves every
\* totalGames.
C24_Step ==
    /\ \A P \in Addresses :
          LET joins == {i \in 1 .. Len(events') :
                           /\ events'[i].name = "GameJoined"
                           /\ P \in {games'[events'[i].gameId].player1,
                                      games'[events'[i].gameId].player2}}
          IN  getPlayerStats(Storage, P)'.totalGames
                  = getPlayerStats(Storage, P).totalGames + Cardinality(joins)
    /\ \A g \in Keys :
          (MovedOn(g)' /\ \A h \in Keys : ~Announces(events', "GameJoined", h))
              => playerGamesPlayed' = playerGamesPlayed

C25_AbsentGameNotFound ==
    \A g \in Keys :
        g >= gameCounter =>
            /\ getGame(Storage, g).result = "GameNotFound"
            /\ useContractGetGame(Storage, g).isNull

(* -------------------------------- C26 --------------------------------- *)

\* The notifications of the game engine among evs: every event but
\* ERC721's Transfer.
Notifications(evs) == SelectSeq(evs, LAMBDA e : e.name # "Transfer")

\* The notifications C26 gives the operation whose first event is first,
\* applied in a step that leaves game g in state stateNext.
C26_Claimed(first, stateNext) ==
    IF first.name = "MoveMade"
    THEN IF stateNext = "Finished"
         THEN <<first,
                WinnerNFTMinted(tokenIdCounter, first.player, first.gameId),
                GameWon(first.gameId, first.player)>>
         ELSE IF stateNext = "Draw"
         THEN <<first, GameDraw(first.gameId)>>
         ELSE <<first>>
    ELSE <<first>>

\* One step: an accepted call emits the notifications of its transition
\* and no others, and a game's GameWon or GameDraw is emitted by the step
\* that ends the game, one of the two and once.
C26_Step ==
    /\ result' = "ok" =>
          /\ Len(events') > 0
          /\ events'[1].name \in {"GameCreated", "GameJoined", "MoveMade"}
          /\ events'[1].gameId \in Keys
          /\ Notifications(events') =
                C26_Claimed(events'[1], games'[events'[1].gameId].state)
    /\ \A g \in Keys :
          LET won == {i \in 1 .. Len(events') :
                         events'[i].name = "GameWon" /\ events'[i].gameId = g}
              drawn == {i \in 1 .. Len(events') :
                           events'[i].name = "GameDraw" /\ events'[i].gameId = g}
          IN  /\ Cardinality(won) + Cardinality(drawn) <= 1
              /\ won # {} =>
                    games[g].state = "InProgress" /\ games'[g].state = "Finished"
              /\ drawn # {} =>
                    games[g].state = "InProgress" /\ games'[g].state = "Draw"

\* C26: each successful operation emits exactly the notifications of its
\* transition and no others: createGame one GameCreated(gameId, caller),
\* joinGame one GameJoined(gameId, caller), every accepted makeMove one
\* MoveMade(gameId, caller, position) first, followed on a win by one
\* WinnerNFTMinted(tokenId, caller, gameId) and then one GameWon(gameId,
\* caller), on a draw by one GameDraw(gameId) and by nothing on a
\* non-terminal move; per game GameWon and GameDraw are emitted at most
\* once in total and never both.
C26_ExactNotifications == [][C26_Step]_vars

(* -------------------------------- C27 --------------------------------- *)

\* The boards of the games not yet joined are empty.
C27_EmptyUntilPlayed ==
    \A g \in Keys :
        games[g].state = "WaitingForPlayer" => Marks(games[g].board) = 0

\* One step: a non-Empty cell keeps its mark, and an Empty cell gets a
\* mark only by an accepted makeMove for that game and that cell.
C27_Step ==
    \A g \in Keys, c \in Cells :
        /\ games[g].board[c] # "Empty" =>
              games'[g].board[c] = games[g].board[c]
        /\ (games[g].board[c] = "Empty" /\ games'[g].board[c] # "Empty") =>
              \E i \in 1 .. Len(events') :
                  /\ events'[i].name = "MoveMade"
                  /\ events'[i].gameId = g
                  /\ events'[i].position = c

\* C27: once a cell of any game's board is non-Empty it holds the same mark
\* in every later state: no createGame, joinGame or makeMove call, on this
\* or any other game, accepted or rejected, changes or clears it; and all
\* cells are Empty until the game's first accepted move.
C27_CellsWrittenOnce == [](C27_EmptyUntilPlayed) /\ [][C27_Step]_vars

\* Game 0 keeps its marks while game 1 has just been created beside it.
C27_Witness ==
    /\ Created
    /\ events[1].gameId = 1
    /\ Marks(games[0].board) >= 2
    /\ Marks(games[1].board) = 0

(* -------------------------------- C28 --------------------------------- *)

\* C28: _checkWinner is correct for every board of {Empty, X, O}^9 and
\* every mark of {X, O}: it returns true if and only if one of the eight
\* lines {0,1,2}, {3,4,5}, {6,7,8}, {0,3,6}, {1,4,7}, {2,5,8}, {0,4,8},
\* {2,4,6} has all three cells equal to that mark; and _isBoardFull returns
\* true if and only if no cell is Empty.
C28_BoardEngineCorrect ==
    /\ returned.fn = "checkWinner" =>
          (returned.value <=> HasLine(returned.board, returned.mark))
    /\ returned.fn = "isBoardFull" =>
          (returned.value <=> \A c \in Cells : returned.board[c] # "Empty")

\* _checkWinner said no for X on a board whose only line is O's
\* anti-diagonal 2, 4, 6.
C28_Witness ==
    /\ returned.fn = "checkWinner"
    /\ returned.mark = "X"
    /\ ~returned.value
    /\ \A c \in {2, 4, 6} : returned.board[c] = "O"
    /\ \A c \in Cells \ {2, 4, 6} : returned.board[c] = "X"

(* -------------------------------- C29 --------------------------------- *)

\* The value of each byte as a base64 symbol: its place in TABLE, 0 for
\* the pad "=", 64 for a byte that is no symbol.
Base64Values ==
    [symbol \in 0 .. 255 |->
        IF \E v \in 0 .. 63 : TABLE[v + 1] = symbol
        THEN CHOOSE v \in 0 .. 63 : TABLE[v + 1] = symbol
        ELSE IF symbol = 61 THEN 0 ELSE 64]

Base64Value(symbol) == Base64Values[symbol]

\* text is base64: whole groups of four symbols of TABLE, the last group
\* ending with at most two pads.
IsBase64(text) ==
    /\ Len(text) % 4 = 0
    /\ \A j \in 1 .. Len(text) :
          /\ Base64Value(text[j]) < 64
          /\ text[j] = 61 => j >= Len(text) - 1
    /\ (Len(text) > 0 /\ text[Len(text) - 1] = 61) => text[Len(text)] = 61

\* The bytes a base64 text stands for (RFC 4648 decoding).
Base64Decode(text) ==
    LET n == Len(text)
        pads == Cardinality({j \in 1 .. n : text[j] = 61})
        quad(k) ==
            Base64Value(text[4 * k + 1]) * 262144
                + Base64Value(text[4 * k + 2]) * 4096
                + Base64Value(text[4 * k + 3]) * 64
                + Base64Value(text[4 * k + 4])
    IN  [i \in 1 .. (3 * (n \div 4) - pads) |->
            LET q == quad((i - 1) \div 3)
            IN  CASE (i - 1) % 3 = 0 -> (q \div 65536) % 256
                  [] (i - 1) % 3 = 1 -> (q \div 256) % 256
                  [] OTHER -> q % 256]

\* The bytes of: base64,
Base64Marker == <<98, 97, 115, 101, 54, 52, 44>>

\* The text of an image data URI inside a JSON document: what stands
\* between the marker "base64," and the closing quote and brace.
ImagePayload(json) ==
    LET at == CHOOSE i \in 1 .. Len(json) :
                  SubSeq(json, i, i + Len(Base64Marker) - 1) = Base64Marker
    IN  SubSeq(json, at + Len(Base64Marker), Len(json) - Len(JsonEnd))

\* The text after the prefix of a data URI.
UriPayload(uri) == SubSeq(uri, Len(UriPrefix) + 1, Len(uri))

\* seq as a sequence written out.
AsSeq(seq) == [i \in 1 .. Len(seq) |-> seq[i]]

\* A tokenURI document decodes to its parts: the outer payload to the JSON
\* document naming the token, the image payload inside it to the SVG
\* markup generated for the token.
C29_Decodes(tokenId, uri) ==
    LET json == Base64Decode(UriPayload(uri))
        image == ImagePayload(json)
    IN  /\ SubSeq(uri, 1, Len(UriPrefix)) = UriPrefix
        /\ IsBase64(UriPayload(uri))
        /\ AsSeq(json) = AsSeq(JsonName \o toString(tokenId) \o JsonImage
                                  \o image \o JsonEnd)
        /\ IsBase64(image)
        /\ AsSeq(Base64Decode(image)) = AsSeq(generateSVG(tokenId))

\* A call of tokenURI that follows a call with the same tokenId returns
\* the same bytes.
C29_SecondCall ==
    (/\ returned.fn = "tokenURI"
     /\ returned'.fn = "tokenURI"
     /\ returned'.tokenId = returned.tokenId)
        => AsSeq(returned'.value) = AsSeq(returned.value)

\* C29: tokenURI(tokenId) is pure and idempotent: a second call with the
\* same tokenId returns the same bytes, and base64-decoding the embedded
\* image payload reproduces exactly the SVG markup generated for that
\* tokenId (and decoding the outer payload reproduces the JSON document),
\* for tokenId 0, small values and a large value.
C29_TokenURIRoundTrip ==
    /\ [](returned.fn = "tokenURI" =>
            C29_Decodes(returned.tokenId, returned.value))
    /\ [][C29_SecondCall]_vars

\* tokenURI was called with the large token id.
C29_Witness ==
    /\ returned.fn = "tokenURI"
    /\ returned.tokenId = 2147483647
    /\ Len(returned.value) > Len(UriPrefix)

(* -------------------------------- C30 --------------------------------- *)

\* C30: tokenURI(tokenId) depends on tokenId alone: in every reachable
\* state, whatever the games, the winners, the owners and the counters
\* have become since, and whether the token is minted or not, the document
\* an earlier call returned is the document a call returns now, and it is
\* never the empty result of a failed call.
C30_DependsOnTokenIdAlone ==
    returned.fn = "tokenURI" =>
        /\ Len(returned.value) > 0
        /\ AsSeq(tokenURI(returned.tokenId)) = AsSeq(returned.value)

\* The document of token 0 was asked for before the token was minted, and
\* the token has an owner now.
C30_Witness ==
    /\ returned.fn = "tokenURI"
    /\ returned.tokenId = 0
    /\ returned.ownerThen = 0
    /\ owners[0] # 0
    /\ Len(returned.value) > 0

(* -------------------------------- C33 --------------------------------- *)

\* Every existing game was created no later than its latest move, and that
\* no later than the current block.
C33_Ordered ==
    \A g \in GameIds :
        g < gameCounter =>
            /\ games[g].createdAt <= games[g].lastMoveAt
            /\ games[g].lastMoveAt <= now

\* One step in which the timestamp does not decrease: createdAt of an
\* existing game is fixed and lastMoveAt never decreases; a call (a step in
\* which no block is mined) that creates a game sets both timestamps to the
\* call time, an accepted joinGame or makeMove sets lastMoveAt to the call
\* time, a rejected call changes no game.
C33_Step ==
    now <= now' =>
        /\ \A g \in GameIds :
              /\ g < gameCounter => games'[g].createdAt = games[g].createdAt
              /\ games[g].lastMoveAt <= games'[g].lastMoveAt
              /\ (now' = now /\ (JoinedOn(g)' \/ MovedOn(g)'))
                    => games'[g].lastMoveAt = now'
              /\ (g = gameCounter /\ gameCounter' = g + 1)
                    => /\ games'[g].createdAt = now'
                       /\ games'[g].lastMoveAt = now'
        /\ (now' = now /\ result' # "ok") => games' = games

\* C33: given that the call-time timestamp never decreases, createdAt is
\* fixed at creation, lastMoveAt equals createdAt at creation and is set to
\* the call time by every successful joinGame and makeMove, so lastMoveAt
\* never decreases and createdAt <= lastMoveAt in every reachable state;
\* rejected calls change neither.
C33_Timestamps == [](C33_Ordered) /\ [][C33_Step]_vars

\* A game created in the block of timestamp 0 was moved on in the block of
\* timestamp MaxTime.
C33_Witness ==
    /\ MovedOn(0)
    /\ games[0].createdAt = 0
    /\ games[0].lastMoveAt = MaxTime
    /\ now = MaxTime
    /\ Marks(games[0].board) = 1

(* -------------------------------- C35 --------------------------------- *)

\* C35: makeMove never fails with GameAlreadyFinished: in every reachable
\* state, for every caller, game id and position, the call does not end
\* with that error, and on a game that is Finished or Draw it is rejected
\* with GameNotInProgress; nor did the latest call end with it.
C35_NeverAlreadyFinished ==
    /\ result # "GameAlreadyFinished"
    /\ \A sender \in Addresses, g \in GameIds, position \in AllPositions :
          LET err == makeMove(Storage, sender, g, position, now, NoHook).result
          IN  /\ err # "GameAlreadyFinished"
              /\ (g < gameCounter /\ games[g].state \in {"Finished", "Draw"})
                    => err = "GameNotInProgress"

\* A move on a Finished game was rejected with GameNotInProgress.
C35_Witness ==
    /\ result = "GameNotInProgress"
    /\ games[0].state = "Finished"
    /\ games[0].winner # 0

(* -------------------------------- C36 --------------------------------- *)

\* The number of X cells of game g minus the number of its O cells.
Lead(g) == CountOf(games[g].board, "X") - CountOf(games[g].board, "O")

\* C36: for every game the number of X cells minus the number of O cells
\* is 0 or 1; while the game is InProgress, currentTurn is player1 exactly
\* when the counts are equal and player2 exactly when X leads by one; a
\* game won by player2 has equal counts, a game won by player1 has X
\* leading by one, and a Draw board has exactly 5 X and 4 O, its last move
\* made by player1.
C36_MarkCounts ==
    \A g \in GameIds :
        LET game == games[g]
        IN  /\ Lead(g) \in {0, 1}
            /\ game.state = "InProgress" =>
                  /\ game.currentTurn = game.player1 <=> Lead(g) = 0
                  /\ game.currentTurn = game.player2 <=> Lead(g) = 1
            /\ (game.state = "Finished" /\ game.winner = game.player2)
                  => Lead(g) = 0
            /\ (game.state = "Finished" /\ game.winner = game.player1)
                  => Lead(g) = 1
            /\ game.state = "Draw" =>
                  /\ CountOf(game.board, "X") = 5
                  /\ CountOf(game.board, "O") = 4
                  /\ game.currentTurn = game.player1
                  /\ (MovedOn(g) /\ events[Len(events)].name = "GameDraw")
                        => events[1].player = game.player1

\* The latest move drew game 0.
C36_Witness ==
    /\ MovedOn(0)
    /\ games[0].state = "Draw"
    /\ events[Len(events)] = GameDraw(0)
    /\ Lead(0) = 1

(* -------------------------------- C37 --------------------------------- *)

\* C37: for every existing game player1 is set; player2 is unset if and
\* only if the state is WaitingForPlayer; when player2 is set it differs
\* from player1, so that the mover of an accepted move is exactly one of
\* player1 and player2, and its mark (X for player1, O otherwise) is the
\* mark of that participant alone.
C37_Participants ==
    \A g \in GameIds :
        g < gameCounter =>
            LET game == games[g]
            IN  /\ game.player1 # 0
                /\ game.player2 = 0 <=> game.state = "WaitingForPlayer"
                /\ game.player2 # 0 => game.player2 # game.player1
                /\ MovedOn(g) =>
                      LET mover == events[1].player
                      IN  /\ (mover = game.player1) # (mover = game.player2)
                          /\ game.board[events[1].position] =
                                 IF mover = game.player1 THEN "X" ELSE "O"

\* Player2 has just moved on a game: the mover is player2 and not player1.
C37_Witness ==
    /\ MovedOn(0)
    /\ events[1].player = games[0].player2
    /\ events[1].player # games[0].player1
    /\ games[0].board[events[1].position] = "O"

(* -------------------------------- C38 --------------------------------- *)

\* C38: no game has more than 9 accepted moves, a game that ended has at
\* least 5, and an InProgress game is never stuck: in every reachable state
\* with the game InProgress there is a position for which makeMove by
\* currentTurn is accepted.
C38_NeverStuck ==
    \A g \in GameIds :
        /\ Marks(games[g].board) <= 9
        /\ games[g].state \in {"Finished", "Draw"}
              => Marks(games[g].board) >= 5
        /\ games[g].state = "InProgress" =>
              \E position \in Cells :
                  makeMove(Storage, games[g].currentTurn, g, position, now,
                           NoHook).result = "ok"

(* -------------------------------- C39 --------------------------------- *)

RECURSIVE SumOf(_, _)

\* The sum of counter[P] over the identities P of a set.
SumOf(counter, identities) ==
    IF identities = {} THEN 0
    ELSE LET P == CHOOSE x \in identities : TRUE
         IN  counter[P] + SumOf(counter, identities \ {P})

\* The games a second player has joined.
JoinedGames == {g \in Keys : games[g].player2 # 0}

\* Every identity has won no more games than it has played, and the wins
\* of all identities add up to the number of Finished games, which is at
\* most the number of joined games.
C39_Counted ==
    /\ \A P \in Addresses : playerWins[P] <= playerGamesPlayed[P]
    /\ SumOf(playerWins, Addresses) = Cardinality(FinishedGames)
    /\ Cardinality(FinishedGames) <= Cardinality(JoinedGames)

\* Neither counter of any identity decreases in a step.
C39_Step ==
    \A P \in Addresses :
        /\ playerWins[P] <= playerWins'[P]
        /\ playerGamesPlayed[P] <= playerGamesPlayed'[P]

\* C39: in every reachable state and for every identity P, wins(P) <=
\* totalGames(P), and the sum of wins over all identities equals the number
\* of Finished games, which is at most the number of joined games; both
\* counters of every identity never decrease.
C39_WinsAndTotals == [](C39_Counted) /\ [][C39_Step]_vars

\* Two games are Finished, each won by another player, and counted.
C39_Witness ==
    /\ Cardinality(FinishedGames) = 2
    /\ playerWins[1] = 1
    /\ playerWins[2] = 1
    /\ playerGamesPlayed[1] = 2

(* -------------------------------- C40 --------------------------------- *)

\* The fields of a game record the players see.
Shown(game) ==
    <<game.player1, game.player2, game.board, game.currentTurn, game.winner,
      game.state>>

\* One step: an accepted joinGame(g) or makeMove(g, position) leaves the
\* record of every other game and gameCounter unchanged, and changes the
\* counters and the game list of the participants of g only.
C40_Step(g) ==
    (JoinedOn(g)' \/ MovedOn(g)') =>
        /\ \A h \in Keys \ {g} : Shown(games'[h]) = Shown(games[h])
        /\ gameCounter' = gameCounter
        /\ \A P \in Addresses \ {games'[g].player1, games'[g].player2} :
              /\ playerWins'[P] = playerWins[P]
              /\ playerGamesPlayed'[P] = playerGamesPlayed[P]
              /\ playerGames'[P] = playerGames[P]

\* C40: operations on one game never affect another: a successful
\* joinGame(g) or makeMove(g, pos) leaves the record of every other game
\* unchanged, leaves gameCounter unchanged, and changes the wins and
\* totalGames counters and the game lists only of participants of g.
C40_OneGameOnly == [][\A g \in Keys : C40_Step(g)]_vars

(* -------------------------------- C34 --------------------------------- *)

\* The symbol of a 6-bit value in the standard alphabet: A-Z, a-z, 0-9, +
\* and /.
Symbol(v) ==
    IF v < 26 THEN 65 + v
    ELSE IF v < 52 THEN 97 + (v - 26)
    ELSE IF v < 62 THEN 48 + (v - 52)
    ELSE IF v = 62 THEN 43 ELSE 47

\* The four symbols of the group of bytes b1, b2, b3: those of its four
\* 6-bit slices.
Group(b1, b2, b3) ==
    <<Symbol(b1 \div 4), Symbol((b1 % 4) * 16 + (b2 \div 16)),
      Symbol((b2 % 16) * 4 + (b3 \div 64)), Symbol(b3 % 64)>>

\* text is standard padded base64 of data: 4 symbols for every 3 bytes,
\* rounded up; every whole group of 3 bytes gives the symbols of its four
\* slices; a last group of one byte gives two symbols and "==", a last
\* group of two bytes three symbols and "=".
IsStandardBase64(data, text) ==
    LET len == Len(data)
        whole == len \div 3
        left == len % 3
        Pad == 61
    IN  /\ Len(text) = 4 * ((len + 2) \div 3)
        /\ \A k \in 0 .. (whole - 1) :
              SubSeq(text, 4 * k + 1, 4 * k + 4) =
                  Group(data[3 * k + 1], data[3 * k + 2], data[3 * k + 3])
        /\ left = 1 =>
              SubSeq(text, 4 * whole + 1, 4 * whole + 4) =
                  SubSeq(Group(data[len], 0, 0), 1, 2) \o <<Pad, Pad>>
        /\ left = 2 =>
              SubSeq(text, 4 * whole + 1, 4 * whole + 4) =
                  SubSeq(Group(data[len - 1], data[len], 0), 1, 3) \o <<Pad>>
        /\ Cardinality({j \in 1 .. Len(text) : text[j] = Pad}) =
               (3 - left) % 3

\* C34: _base64Encode agrees with standard padded base64 for every input
\* byte string: the output has length 4*ceil(len/3), empty for the empty
\* input, each group of 3 input bytes maps to the 4 symbols of its four
\* 6-bit slices from the alphabet A-Z a-z 0-9 + /, and the output ends
\* with exactly two "=" when len mod 3 = 1, one when len mod 3 = 2 and none
\* when len mod 3 = 0; decoding the output gives the input back.
C34_StandardBase64 ==
    returned.fn = "base64Encode" =>
        /\ IsStandardBase64(returned.data, AsSeq(returned.value))
        /\ Len(returned.data) = 0 => returned.value = <<>>
        /\ AsSeq(Base64Decode(returned.value)) = returned.data

\* A string of four bytes, the last left over alone, was encoded to eight
\* symbols ending with two pads.
C34_Witness ==
    /\ returned.fn = "base64Encode"
    /\ returned.data = <<255, 0, 64, 77>>
    /\ Len(returned.value) = 8
    /\ returned.value[7] = 61

(* -------------------------------- C32 --------------------------------- *)

\* The lines of the board in the fixed order: rows, columns, diagonals.
LineOrder ==
    <<{0, 1, 2}, {3, 4, 5}, {6, 7, 8}, {0, 3, 6}, {1, 4, 7}, {2, 5, 8},
      {0, 4, 8}, {2, 4, 6}>>

\* The places in LineOrder of the lines of board fully occupied by mark.
Matching(board, mark) ==
    {k \in 1 .. Len(LineOrder) : \A c \in LineOrder[k] : board[c] = mark}

\* C32: for every Finished game the client reads from the contract,
\* findWinningCells(board, mark of the winner) returns three cells that all
\* hold the winner's mark and form the first matching line in the order
\* rows, columns, diagonals; for a mark with no complete line on the board
\* of any game it returns the empty list.
C32_WinningCells ==
    \A g \in GameIds :
        LET game == useContractGetGame(Storage, g)
        IN  /\ game.state = "Finished" =>
                  LET cells == findWinningCells(game.board, winnerMark(game))
                      first == CHOOSE k \in Matching(game.board, winnerMark(game)) :
                                   \A j \in Matching(game.board, winnerMark(game)) :
                                       k <= j
                  IN  /\ Len(cells) = 3
                      /\ \A i \in 1 .. 3 :
                            games[g].board[cells[i]] =
                                IF games[g].winner = games[g].player1
                                THEN "X" ELSE "O"
                      /\ Matching(game.board, winnerMark(game)) # {}
                      /\ Range(cells) = LineOrder[first]
            /\ \A mark \in PlayerMarks :
                  Matching(game.board, mark) = {}
                      => findWinningCells(game.board, mark) = <<>>

\* Player1 won with the row 0,1,2 and the column 0,3,6 at once, and the
\* client finds the row.
C32_Witness ==
    /\ games[0].state = "Finished"
    /\ games[0].winner = games[0].player1
    /\ \A c \in {0, 1, 2, 3, 6} : games[0].board[c] = "X"
    /\ findWinningCells(useContractGetGame(Storage, 0).board, "X") = <<0, 1, 2>>

(* -------------------------------- C31 --------------------------------- *)

\* The game the client of wallet c shows is not the record the contract
\* holds for it.
Stale(c) ==
    /\ ~clients[c].currentGame.isNull
    /\ clients[c].currentGame #
           useContractGetGame(Storage, clients[c].currentGame.id)

\* C31: the board syncs automatically between players: whenever the record
\* of the game a client shows has been changed by the other player (the
\* opponent joined the game the client created, or the opponent moved),
\* the game the client shows is eventually the contract's record again,
\* without any user pressing refresh.
C31_BoardSyncs == \A c \in Duo : Stale(c) ~> ~Stale(c)

\* The client of the creator shows the game as joined by the opponent,
\* before any move.
C31_Witness ==
    /\ games[0].player1 = 1
    /\ games[0].player2 = 2
    /\ Marks(games[0].board) = 0
    /\ ~clients[1].currentGame.isNull
    /\ clients[1].currentGame.state = "InProgress"
    /\ clients[1].currentGame.player2 = 2

====
